---- MODULE Spec2Model ----
(***************************************************************************)
(* A model of godoom: the BSP engine of godoom.go (traverseBsp,            *)
(* pointOnSide, intersects, findSector, segSidedef, segOppositeSidedef),   *)
(* its geometry generation (genSubsector, genSeg, genLinedef), its texture *)
(* composition and caches (loadTexture, CacheTexture, CacheFlat), and the  *)
(* archive reader of wad.go (ReadWAD and its stages, LevelNames,           *)
(* ReadLevel, LoadTexture, LoadFlat).                                      *)
(*                                                                         *)
(* Go values are modelled by what the Go code does with them: int16        *)
(* fields are integers in -32768..32767, `int` is wide enough for every    *)
(* value that occurs, arrays are functions on 0..n-1, and an index         *)
(* outside an array is a run-time panic, recorded as an outcome.           *)
(***************************************************************************)
EXTENDS Integers, Sequences, FiniteSets

VARIABLES
    Nodes,        \* level.Nodes: function 0..n-1 -> Node
    point,        \* the query point [X, Y]
    filter,       \* which bspFilter the caller passed
    stack,        \* traverseBsp's call stack, innermost frame last
    visits,       \* the calls of action so far, in order
    filterCalls,  \* the calls of filter so far, in order
    outcome,      \* "running", "done", "panic" or "overflow"
    side,         \* <<the value pointOnSide returned>>, <<>> before the call
    SSectors, Segs, Linedefs, Sidedefs, Sectors,  \* the other arrays of the Level
    fsIdx,        \* findSector: the idx of the running invocation
    fsDepth,      \* findSector: the number of invocations on the stack
    fsOutcome,    \* findSector: "idle", "running", "sector", "none", "panic", "overflow"
    fsSector,     \* findSector: the index of the sector returned
    fsTrail,      \* findSector: what each invocation did, in order
    dir,          \* the directory on disk: function 0..k-1 -> lumpInfo
    NumLumps,     \* header.NumLumps
    InfoTableOfs, \* header.InfoTableOfs
    rdI,          \* readInfoTables: the loop index i
    rdLumps, rdLevels, rdLumpInfos,  \* readInfoTables: its locals
    rdOutcome,    \* readInfoTables: "idle", "seek", "running", "ok", "err", "panic"
    wLumps, wLevels, wLumpInfos,     \* the fields w.lumps, w.levels, w.lumpInfos
    fileOpens,    \* whether os.Open finds the file
    hdrMagic,     \* header.Magic as read from the file, <<>> when the file is too short
    fileEnd,      \* the size of the file: no byte at or after this offset
    wadPc,        \* ReadWAD: the stage it is at
    wadTrace,     \* ReadWAD: the stages it has started, in order
    wadRet,       \* ReadWAD: <<>> until it returns, then <<wad, err>>
    wPlaypal,     \* wad.Playpal: the offset the palette was read from
    wPnames,      \* wad.pnames
    plI,          \* readPatchLumps: the position of the range loop in w.pnames
    plPatches,    \* readPatchLumps: its local map patches
    wPatches,     \* wad.patches
    wTextures,    \* wad.textures
    wFlats,       \* wad.flats
    lnResults,    \* LevelNames: what each call returned, in order
    rlName,       \* ReadLevel: its argument
    rlI,          \* ReadLevel: the loop index i
    rlOutcome,    \* ReadLevel: "idle", "running", "ok", "err" or "panic"
    rlLevel,      \* ReadLevel: for each array of the Level, the entry it was read from
    rlReads,      \* ReadLevel: the indices at which it has read w.lumpInfos
    ldResult,     \* LoadTexture, LoadFlat: <<kind, name, value, err>> of the call
    lump,         \* readPatchLumps: the bytes of the lump of one patch
    picture,      \* the picture the lump was encoded from
    pdHeader,     \* readPatchLumps: header
    pdOffsets,    \* readPatchLumps: offsets
    pdPixels,     \* readPatchLumps: pixels
    pdColumn,     \* readPatchLumps: columnIndex
    pdOffset,     \* readPatchLumps: offset
    pdOutcome,    \* readPatchLumps: "idle", "start", "columns", "done", "skipped", "err", "panic"
    pdImage,      \* readPatchLumps: <<the Image stored in patches>>
    texture,      \* loadTexture: the Texture that wad.LoadTexture returned
    images,       \* loadTexture: the Image that wad.LoadImage returns for each patch number
    rgba,         \* loadTexture: the canvas
    ltPatch,      \* loadTexture: the position of the range loop in texture.Patches
    ltOutcome,    \* loadTexture: "idle", "start", "patches", "done", "noheader", "panic"
    sceneTextures, \* scene.textures
    sceneFlats,   \* scene.flats
    nextTexId,    \* the id gl.GenTextures hands out next
    loaderRuns,   \* how often loadTexture, loadFlat ran for each name
    loaderOk,     \* how often they returned without an error
    cacheCalls,   \* the calls of CacheTexture and CacheFlat so far, in order
    cacheOutcome, \* "idle", "running" or "panic"
    Vertexes,     \* level.Vertexes
    gsSsectorId,  \* genSubsector: its argument ssectorId
    gsSeg,        \* genSubsector: the loop variable seg
    gsPc,         \* "idle", "start", "loop", "upper", "middle", "lower", "done" or "panic"
    gsCalls,      \* the segId of each call of genSeg so far, in order
    gsMeshes,     \* genLinedef: its local meshes
    sceneMeshes,  \* scene.meshes
    sbFloorTextures, \* sb.floorTextures
    sbFloorVertices  \* sb.floorVertices

bspVars == <<Nodes, point, filter, stack, visits, filterCalls, outcome, side>>

levelVars == <<SSectors, Segs, Linedefs, Sidedefs, Sectors>>

findVars == <<fsIdx, fsDepth, fsOutcome, fsSector, fsTrail>>

dirVars ==
    <<dir, NumLumps, InfoTableOfs, rdI, rdLumps, rdLevels, rdLumpInfos, rdOutcome,
      wLumps, wLevels, wLumpInfos>>

wadVars ==
    <<fileOpens, hdrMagic, fileEnd, wadPc, wadTrace, wadRet, wPlaypal, wPnames,
      plI, plPatches, wPatches, wTextures, wFlats, lnResults, rlName, rlI,
      rlOutcome, rlLevel, rlReads, ldResult>>

patchVars ==
    <<lump, picture, pdHeader, pdOffsets, pdPixels, pdColumn, pdOffset, pdOutcome, pdImage>>

\* The state of the parts that follow the directory reader.
texVars == <<texture, images, rgba, ltPatch, ltOutcome>>

cacheVars ==
    <<sceneTextures, sceneFlats, nextTexId, loaderRuns, loaderOk, cacheCalls, cacheOutcome>>

genVars ==
    <<Vertexes, gsSsectorId, gsSeg, gsPc, gsCalls, gsMeshes, sceneMeshes,
      sbFloorTextures, sbFloorVertices>>

laterVars == <<wadVars, patchVars, texVars, cacheVars, genVars>>

vars == <<bspVars, levelVars, findVars, dirVars, laterVars>>

\* What the traversal leaves alone.
bspOthers == <<levelVars, findVars, dirVars, laterVars>>

(***************************************************************************)
(* Bounds of the model.                                                    *)
(***************************************************************************)
MaxNodes == 2

\* The longest node array findSector is run on.
MaxFindNodes == 1

\* The longest directory on disk.
MaxLumps == 4

(***************************************************************************)
(* Machine arithmetic.                                                     *)
(***************************************************************************)
Int16Min == -32768
Int16Max == 32767
Word16 == 65536

\* The value of a 16-bit conversion uint16(x).
Uint16(x) == x % Word16

\* The value of a 16-bit conversion int16(x).
Int16(x) == IF x % Word16 > Int16Max THEN (x % Word16) - Word16 ELSE x % Word16

\* a & b on non-negative operands, bit by bit.
RECURSIVE BitAnd(_, _)
BitAnd(a, b) ==
    IF a = 0 \/ b = 0 THEN 0
    ELSE (a % 2) * (b % 2) + 2 * BitAnd(a \div 2, b \div 2)

\* a ^ b on non-negative operands, bit by bit.
RECURSIVE BitXor(_, _)
BitXor(a, b) ==
    IF a = 0 THEN b
    ELSE IF b = 0 THEN a
    ELSE ((a + b) % 2) + 2 * BitXor(a \div 2, b \div 2)

\* x >> n on a signed operand: an arithmetic shift, one bit at a time.
RECURSIVE ShiftRight(_, _)
ShiftRight(x, n) == IF n = 0 THEN x ELSE ShiftRight(x \div 2, n - 1)

\* idx & mask for an int idx (two's complement) and a mask below 2^16: only the
\* low 16 bits of idx take part.
IntAndMask(idx, mask) == BitAnd(idx % Word16, mask)

subsectorBit == 32768

(***************************************************************************)
(* pointOnSide (godoom.go).                                                *)
(***************************************************************************)
pointOnSideWrap16(p, node) ==
    LET dx == Int16(p.X - node.X)
        dy == Int16(p.Y - node.Y)
        left == ShiftRight(node.DY, 16) * dx
        right == ShiftRight(node.DX, 16) * dy
    IN  IF right < left THEN 0 ELSE 1

\* pointOnSide with the direction fields used as they are, without the shift.
pointOnSideNoShift(p, node) ==
    LET dx == p.X - node.X
        dy == p.Y - node.Y
        left == node.DY * dx
        right == node.DX * dy
    IN  IF right < left THEN 0 ELSE 1

pointOnSide(p, node) ==
    LET dx == p.X - node.X
        dy == p.Y - node.Y
        left == ShiftRight(node.DY, 16) * dx
        right == ShiftRight(node.DX, 16) * dy
    IN  IF right < left THEN 0 ELSE 1

(***************************************************************************)
(* traverseBsp (godoom.go), one action per step of one invocation.         *)
(* A frame is [idx, pc, side]: pc is "enter" before the body runs, "near"  *)
(* while the call on the near child is running, "far" while the call on    *)
(* the far child is running.                                               *)
(***************************************************************************)
\* The bspFilter values callers pass: `all` of game() and the near-side-only
\* descent.
applyFilter(kind, nodeId) == kind = "all"

\* The goroutine stack holds any tree over the node array; a deeper recursion
\* ends the program with a stack overflow.
StackLimit == MaxNodes + 2

isSubsector(idx) == IntAndMask(idx, subsectorBit) = subsectorBit

subsectorOfNoSentinel(idx) == BitAnd(Uint16(idx), Uint16(Word16 - 1 - subsectorBit))

subsectorOf(idx) ==
    IF idx = -1 THEN 0
    ELSE BitAnd(Uint16(idx), Uint16(Word16 - 1 - subsectorBit))

NumNodes == Cardinality(DOMAIN Nodes)

Top == stack[Len(stack)]

Pop == SubSeq(stack, 1, Len(stack) - 1)

\* The child slots followed from the root to the running invocation.
SlotOf(f) == <<f.idx, IF f.pc = "near" THEN f.side ELSE BitXor(f.side, 1)>>

PathOf(s) == [i \in 1..(Len(s) - 1) |-> SlotOf(s[i])]

Return ==
    /\ stack' = Pop
    /\ outcome' = IF Len(stack) = 1 THEN "done" ELSE "running"

Call(caller, idx) ==
    IF Len(stack) >= StackLimit
    THEN /\ outcome' = "overflow"
         /\ stack' = stack
    ELSE /\ outcome' = "running"
         /\ stack' = Append(Pop, caller) \o <<[idx |-> idx, pc |-> "enter", side |-> 0]>>

\* Enter with the children taken in slot order, whatever pointOnSide says.
EnterSlotOrder ==
    /\ outcome = "running"
    /\ UNCHANGED bspOthers
    /\ Top.pc = "enter"
    /\ LET idx == Top.idx IN
       IF isSubsector(idx)
       THEN /\ visits' = Append(visits, [path |-> PathOf(stack), arg |-> subsectorOf(idx)])
            /\ Return
            /\ UNCHANGED <<Nodes, point, filter, filterCalls, side>>
       ELSE IF idx \notin DOMAIN Nodes
       THEN /\ outcome' = "panic"
            /\ UNCHANGED <<Nodes, point, filter, stack, visits, filterCalls, side>>
       ELSE /\ Call([idx |-> idx, pc |-> "near", side |-> 0], Nodes[idx].Child[0])
            /\ UNCHANGED <<Nodes, point, filter, visits, filterCalls, side>>

\* Lines 298-310: the leaf test, the action call, or the descent to the near child.
Enter ==
    /\ outcome = "running"
    /\ UNCHANGED bspOthers
    /\ Top.pc = "enter"
    /\ LET idx == Top.idx IN
       IF isSubsector(idx)
       THEN /\ visits' = Append(visits, [path |-> PathOf(stack), arg |-> subsectorOf(idx)])
            /\ Return
            /\ UNCHANGED <<Nodes, point, filter, filterCalls, side>>
       ELSE IF idx \notin DOMAIN Nodes
       THEN /\ outcome' = "panic"
            /\ UNCHANGED <<Nodes, point, filter, stack, visits, filterCalls, side>>
       ELSE LET s == pointOnSide(point, Nodes[idx]) IN
            /\ Call([idx |-> idx, pc |-> "near", side |-> s], Nodes[idx].Child[s])
            /\ UNCHANGED <<Nodes, point, filter, visits, filterCalls, side>>

\* AfterNear that never enters the far child.
AfterNearSkipFar ==
    /\ outcome = "running"
    /\ UNCHANGED bspOthers
    /\ Top.pc = "near"
    /\ LET oppositeSide == BitXor(Top.side, 1)
           oppositeSideIdx == Nodes[Top.idx].Child[oppositeSide]
       IN  /\ filterCalls' = Append(filterCalls, [node |-> Top.idx, arg |-> oppositeSideIdx])
           /\ Return
    /\ UNCHANGED <<Nodes, point, filter, visits, side>>

\* AfterNear that enters the far child whatever the filter returns.
AfterNearAlwaysFar ==
    /\ outcome = "running"
    /\ UNCHANGED bspOthers
    /\ Top.pc = "near"
    /\ LET oppositeSide == BitXor(Top.side, 1)
           oppositeSideIdx == Nodes[Top.idx].Child[oppositeSide]
       IN  /\ filterCalls' = Append(filterCalls, [node |-> Top.idx, arg |-> oppositeSideIdx])
           /\ Call([Top EXCEPT !.pc = "far"], oppositeSideIdx)
    /\ UNCHANGED <<Nodes, point, filter, visits, side>>

\* Lines 311-315: back from the near child; the filter decides on the far child.
AfterNear ==
    /\ outcome = "running"
    /\ UNCHANGED bspOthers
    /\ Top.pc = "near"
    /\ LET oppositeSide == BitXor(Top.side, 1)
           oppositeSideIdx == Nodes[Top.idx].Child[oppositeSide]
       IN  /\ filterCalls' = Append(filterCalls, [node |-> Top.idx, arg |-> oppositeSideIdx])
           /\ IF applyFilter(filter, oppositeSideIdx)
              THEN Call([Top EXCEPT !.pc = "far"], oppositeSideIdx)
              ELSE Return
    /\ UNCHANGED <<Nodes, point, filter, visits, side>>

\* Line 316: back from the far child.
AfterFar ==
    /\ outcome = "running"
    /\ UNCHANGED bspOthers
    /\ Top.pc = "far"
    /\ Return
    /\ UNCHANGED <<Nodes, point, filter, visits, filterCalls, side>>

(***************************************************************************)
(* The values of the parts a specification does not exercise.              *)
(***************************************************************************)
IdleBsp ==
    /\ filter = "all"
    /\ stack = <<>>
    /\ visits = <<>>
    /\ filterCalls = <<>>
    /\ outcome = "idle"

IdleLevel ==
    /\ SSectors = <<>> /\ Segs = <<>> /\ Linedefs = <<>>
    /\ Sidedefs = <<>> /\ Sectors = <<>>

IdleFind ==
    /\ fsIdx = 0 /\ fsDepth = 0 /\ fsOutcome = "idle"
    /\ fsSector = -1 /\ fsTrail = <<>>

IdleDir ==
    /\ dir = <<>> /\ NumLumps = 0 /\ InfoTableOfs = 0 /\ rdI = 0
    /\ rdLumps = <<>> /\ rdLevels = <<>> /\ rdLumpInfos = <<>>
    /\ rdOutcome = "idle"
    /\ wLumps = "nil" /\ wLevels = "nil" /\ wLumpInfos = "nil"

IdleWad ==
    /\ fileOpens = TRUE /\ hdrMagic = <<>> /\ fileEnd = 0
    /\ wadPc = "idle" /\ wadTrace = <<>> /\ wadRet = <<>>
    /\ wPlaypal = <<>> /\ wPnames = <<>> /\ plI = 0 /\ plPatches = <<>>
    /\ wPatches = <<>> /\ wTextures = <<>> /\ wFlats = <<>>
    /\ lnResults = <<>>
    /\ rlName = <<>> /\ rlI = 0 /\ rlOutcome = "idle" /\ rlLevel = <<>> /\ rlReads = {}
    /\ ldResult = <<>>

IdlePatch ==
    /\ lump = <<>> /\ picture = <<>>
    /\ pdHeader = [Width |-> 0, Height |-> 0] /\ pdOffsets = <<>> /\ pdPixels = <<>>
    /\ pdColumn = 0 /\ pdOffset = 0 /\ pdOutcome = "idle" /\ pdImage = <<>>

IdleTex ==
    /\ texture = <<>> /\ images = <<>> /\ rgba = <<>> /\ ltPatch = 0 /\ ltOutcome = "idle"

IdleCache ==
    /\ sceneTextures = <<>> /\ sceneFlats = <<>> /\ nextTexId = 1
    /\ loaderRuns = <<>> /\ loaderOk = <<>> /\ cacheCalls = <<>> /\ cacheOutcome = "idle"

IdleGen ==
    /\ Vertexes = <<>> /\ gsSsectorId = 0 /\ gsSeg = 0 /\ gsPc = "idle"
    /\ gsCalls = <<>> /\ gsMeshes = <<>> /\ sceneMeshes = <<>>
    /\ sbFloorTextures = <<>> /\ sbFloorVertices = <<>>

IdleLater == IdleWad /\ IdlePatch /\ IdleTex /\ IdleCache /\ IdleGen

(***************************************************************************)
(* The inputs of the traversal.                                            *)
(***************************************************************************)
\* A Go array or slice of two elements.
Array2(a, b) == [i \in 0..1 |-> IF i = 0 THEN a ELSE b]

NoBox == [Top |-> 0, Bottom |-> 0, Left |-> 0, Right |-> 0]

\* Child slots: node indices and leaf slots (the sentinel -1, subsector 1).
LeafSlots == {-1, Int16Min + 1}

Slots == (0..(MaxNodes - 1)) \cup LeafSlots

BspNodes ==
    [X : {0}, Y : {0}, DX : {-1, 1}, DY : {0},
     BBox : {[s \in 0..1 |-> NoBox]}, Child : [0..1 -> Slots]]

\* The directions along a node array: all west, all east, or alternating.
BspDirs ==
    {[i \in 0..(MaxNodes - 1) |-> -1],
     [i \in 0..(MaxNodes - 1) |-> 1],
     [i \in 0..(MaxNodes - 1) |-> IF i % 2 = 0 THEN -1 ELSE 1],
     [i \in 0..(MaxNodes - 1) |-> IF i % 2 = 0 THEN 1 ELSE -1]}

BspPoints == [X : {0}, Y : {-1, 1}]

InitBsp ==
    /\ \E n \in 0..MaxNodes, d \in BspDirs :
          Nodes \in {ns \in [0..(n - 1) -> BspNodes] : \A i \in 0..(n - 1) : ns[i].DX = d[i]}
    /\ point \in BspPoints
    /\ filter \in {"all", "none"}
    \* game(): traverseBsp(level, point, len(level.Nodes)-1, filter, action)
    /\ stack = <<[idx |-> NumNodes - 1, pc |-> "enter", side |-> 0]>>
    /\ visits = <<>>
    /\ filterCalls = <<>>
    /\ outcome = "running"
    /\ side = <<>>
    /\ IdleLevel /\ IdleFind /\ IdleDir /\ IdleLater

NextBsp == Enter \/ AfterNear \/ AfterFar

SpecBsp == InitBsp /\ [][NextBsp]_vars

(***************************************************************************)
(* The shape of the node array, stated without the traversal.              *)
(***************************************************************************)
Root == NumNodes - 1

\* An int16 child slot has bit 15 set exactly when it is negative.
SlotIsLeaf(v) == v < 0

\* The subsector a leaf slot names: bit 15 cleared, the sentinel -1 apart.
SlotSubsector(v) == IF v = -1 THEN 0 ELSE v - Int16Min

ChildNodes(n) == {Nodes[n].Child[s] : s \in 0..1} \cap DOMAIN Nodes

RECURSIVE Closure(_)
Closure(S) ==
    LET T == S \cup UNION {ChildNodes(n) : n \in S}
    IN  IF T = S THEN S ELSE Closure(T)

Reach == IF Root \in DOMAIN Nodes THEN Closure({Root}) ELSE {}

SlotValue(sl) == Nodes[sl[1]].Child[sl[2]]

InnerSlotsReached == {sl \in Reach \X (0..1) : ~SlotIsLeaf(SlotValue(sl))}

LeafSlotsReached == {sl \in Reach \X (0..1) : SlotIsLeaf(SlotValue(sl))}

\* Every inner slot names a node, no node is named twice, and none names the root.
IsTree ==
    LET inner == InnerSlotsReached IN
    /\ \A sl \in inner : SlotValue(sl) \in DOMAIN Nodes /\ SlotValue(sl) # Root
    /\ \A a, b \in inner : a # b => SlotValue(a) # SlotValue(b)

LastSlot(v) == v.path[Len(v.path)]

\* The nodes met from idx by following the child pointOnSide selects.
RECURSIVE NearPath(_, _)
NearPath(idx, fuel) ==
    IF fuel = 0 \/ idx \notin DOMAIN Nodes THEN <<>>
    ELSE <<idx>> \o NearPath(Nodes[idx].Child[pointOnSide(point, Nodes[idx])], fuel - 1)

NearSlot(n) == <<n, pointOnSide(point, Nodes[n])>>

FarSlot(n) == <<n, 1 - pointOnSide(point, Nodes[n])>>

(***************************************************************************)
(* C1: with the filter that always returns true, over a node array whose   *)
(* child slots form a tree, the traversal ends normally and has called the *)
(* action exactly once for each leaf slot reachable from the root, with    *)
(* that slot's decoded subsector index, and for nothing else, whatever the *)
(* point is (an empty array has the root index -1: one call, subsector 0). *)
(***************************************************************************)
C1_AllLeavesOnce ==
    (filter = "all" /\ IsTree) =>
        LET leaves == LeafSlotsReached IN
        /\ outcome \in {"running", "done"}
        /\ \A i \in 1..Len(visits) :
              IF NumNodes = 0
              THEN visits[i].path = <<>> /\ visits[i].arg = 0
              ELSE /\ visits[i].path # <<>>
                   /\ LastSlot(visits[i]) \in leaves
                   /\ visits[i].arg = SlotSubsector(SlotValue(LastSlot(visits[i])))
        /\ \A i, j \in 1..Len(visits) :
              i # j => visits[i].path # <<>> /\ LastSlot(visits[i]) # LastSlot(visits[j])
        /\ outcome = "done" =>
              Len(visits) = IF NumNodes = 0 THEN 1 ELSE Cardinality(leaves)

C1_Witness ==
    /\ filter = "all" /\ IsTree
    /\ outcome = "done"
    /\ NumNodes = 2
    /\ Len(visits) = 3
    /\ \E i \in 1..3 : SlotValue(LastSlot(visits[i])) = -1

(***************************************************************************)
(* C2: of two action calls, the earlier one lies under the near child      *)
(* Child[pointOnSide(point, node)] and the later one under the far child   *)
(* of the node where their paths from the root part.                       *)
(***************************************************************************)
C2_NearBeforeFar ==
    LET near == [n \in DOMAIN Nodes |-> pointOnSide(point, Nodes[n])] IN
    \A i, j \in 1..Len(visits) :
        i < j =>
            \E k \in 1..Len(visits[i].path) :
                /\ k <= Len(visits[j].path)
                /\ \A m \in 1..(k - 1) : visits[i].path[m] = visits[j].path[m]
                /\ visits[i].path[k][1] = visits[j].path[k][1]
                /\ visits[i].path[k][2] = near[visits[i].path[k][1]]
                /\ visits[j].path[k][2] = 1 - near[visits[i].path[k][1]]

C2_Witness ==
    /\ outcome = "done"
    /\ Len(visits) >= 3
    /\ pointOnSide(point, Nodes[Root]) = 0
    /\ \E n \in DOMAIN Nodes : pointOnSide(point, Nodes[n]) = 1 /\ n \in Reach

(***************************************************************************)
(* C3: with the filter that always returns false, a traversal that returns *)
(* has called the action once, for the leaf reached from the root through  *)
(* the children pointOnSide selects; the filter was called exactly once    *)
(* for each node on that path, with the far child's slot value, and no far *)
(* child was entered.                                                      *)
(***************************************************************************)
C3_NearOnly ==
    filter = "none" =>
        /\ \A i \in 1..Len(stack) : stack[i].pc # "far"
        /\ outcome = "done" =>
              LET path == NearPath(Root, NumNodes + 1)
                  leaf == IF path = <<>> THEN Root
                          ELSE SlotValue(NearSlot(path[Len(path)]))
              IN  /\ Len(visits) = 1
                  /\ visits[1].arg = SlotSubsector(leaf)
                  /\ visits[1].path = [k \in 1..Len(path) |-> NearSlot(path[k])]
                  /\ Len(filterCalls) = Len(path)
                  /\ \A k \in 1..Len(path) :
                        /\ Cardinality({i \in 1..Len(filterCalls) :
                                            filterCalls[i].node = path[k]}) = 1
                        /\ \A i \in 1..Len(filterCalls) :
                              filterCalls[i].node = path[k] =>
                                  filterCalls[i].arg = SlotValue(FarSlot(path[k]))

C3_Witness ==
    /\ filter = "none"
    /\ outcome = "done"
    /\ Len(filterCalls) = 2
    /\ \E i \in 1..2 : ~SlotIsLeaf(filterCalls[i].arg)

(***************************************************************************)
(* C6: an invocation treats its index as a leaf exactly when bit 15 is     *)
(* set; the action then gets the index with bit 15 cleared, but 0 for the  *)
(* index -1; an index without bit 15 indexes the nodes array.              *)
(***************************************************************************)
Bit15(idx) == ((idx % Word16) \div subsectorBit) % 2 = 1

Bit15Cleared(idx) == IF Bit15(idx) THEN (idx % Word16) - subsectorBit ELSE idx % Word16

C6_LeafEncoding ==
    [][(outcome = "running" /\ Top.pc = "enter") =>
         LET idx == Top.idx IN
         IF Bit15(idx)
         THEN /\ Len(visits') = Len(visits) + 1
              /\ visits'[Len(visits')].arg = (IF idx = -1 THEN 0 ELSE Bit15Cleared(idx))
              /\ visits'[Len(visits')].arg \in 0..Int16Max
              /\ stack' = Pop
         ELSE /\ visits' = visits
              /\ IF idx \in DOMAIN Nodes
                 THEN outcome' = "running" =>
                          /\ Len(stack') = Len(stack) + 1
                          /\ stack'[Len(stack)].idx = idx
                          /\ stack'[Len(stack')].idx \in
                                 {Nodes[idx].Child[s] : s \in 0..1}
                 ELSE outcome' = "panic"]_vars

C6_Witness ==
    /\ Len(visits) >= 2
    /\ \E i, j \in 1..Len(visits) :
          /\ visits[i].path # <<>> /\ SlotValue(LastSlot(visits[i])) = -1
          /\ visits[i].arg = 0
          /\ visits[j].path # <<>> /\ SlotValue(LastSlot(visits[j])) = Int16Min + 1
          /\ visits[j].arg = 1

(***************************************************************************)
(* pointOnSide on its own: one node, one point, one call.                  *)
(***************************************************************************)
SideCoords == {Int16Min, -1, 0, 1, Int16Max}

SideDirs == {Int16Min, -1, 0, 1, 256, Int16Max}

SideNodes ==
    [X : {Int16Min, 0, Int16Max}, Y : {Int16Min, 0, Int16Max},
     DX : SideDirs, DY : SideDirs,
     BBox : {[s \in 0..1 |-> NoBox]}, Child : {[s \in 0..1 |-> -1]}]

InitSide ==
    /\ Nodes \in [0..0 -> SideNodes]
    /\ point \in [X : SideCoords, Y : SideCoords]
    /\ side = <<>>
    /\ IdleBsp /\ IdleLevel /\ IdleFind /\ IdleDir /\ IdleLater

ClassifyPoint ==
    /\ side = <<>>
    /\ outcome = "idle"
    /\ side' = <<pointOnSide(point, Nodes[0])>>
    /\ UNCHANGED <<Nodes, point, filter, stack, visits, filterCalls, outcome>>
    /\ UNCHANGED bspOthers

NextSide == ClassifyPoint

SpecSide == InitSide /\ [][NextSide]_vars

(***************************************************************************)
(* C4: pointOnSide returns 0 exactly when dy*(DX>>16) < (DY>>16)*dx, dx    *)
(* and dy being the differences without 16-bit wrap-around, and 1 in every *)
(* other case, equal products included.                                    *)
(***************************************************************************)
C4_SideFormula ==
    (side # <<>> /\ outcome = "idle") =>
        LET dx == point.X - Nodes[0].X
            dy == point.Y - Nodes[0].Y
            sdx == Nodes[0].DX \div Word16
            sdy == Nodes[0].DY \div Word16
        IN  /\ side[1] \in {0, 1}
            /\ side[1] = 0 <=> dy * sdx < sdy * dx
            /\ dy * sdx = sdy * dx => side[1] = 1

C4_Witness ==
    /\ side = <<0>> /\ outcome = "idle"
    /\ point.X - Nodes[0].X > Int16Max
    /\ Nodes[0].DY < 0

(***************************************************************************)
(* C5: for a node whose direction is (dx = 1.0, dy = 0) in 16.16 fixed     *)
(* point, 0x00010000, which the int16 field DX stores as 1 (any DX > 0 is  *)
(* such a direction up to length), a point above the node (dy > 0) is      *)
(* classified back and a point below it (dy < 0) front.                    *)
(***************************************************************************)
C5_EastwardNode ==
    (side # <<>> /\ outcome = "idle" /\ Nodes[0].DX > 0 /\ Nodes[0].DY = 0) =>
        /\ point.Y > Nodes[0].Y => side = <<1>>
        /\ point.Y < Nodes[0].Y => side = <<0>>

(***************************************************************************)
(* segSidedef, segOppositeSidedef, intersects (godoom.go).  A *Sidedef is  *)
(* [kind |-> "ptr", ref |-> index into level.Sidedefs], [kind |-> "nil"]   *)
(* or, when the index expression is out of range, [kind |-> "panic"].      *)
(***************************************************************************)
NilPtr == [kind |-> "nil", ref |-> 0]

PanicPtr == [kind |-> "panic", ref |-> 0]

SidedefAt(ref) ==
    IF ref \in DOMAIN Sidedefs THEN [kind |-> "ptr", ref |-> ref] ELSE PanicPtr

segSidedefSwapped(seg, linedef) ==
    IF seg.Segside = 0
    THEN IF linedef.SidedefLeft = -1 THEN NilPtr ELSE SidedefAt(linedef.SidedefLeft)
    ELSE SidedefAt(linedef.SidedefRight)

segSidedef(seg, linedef) ==
    IF seg.Segside = 0
    THEN SidedefAt(linedef.SidedefRight)
    ELSE IF linedef.SidedefLeft = -1 THEN NilPtr ELSE SidedefAt(linedef.SidedefLeft)

segOppositeSidedef(seg, linedef) ==
    IF seg.Segside = 0
    THEN IF linedef.SidedefLeft = -1 THEN NilPtr ELSE SidedefAt(linedef.SidedefLeft)
    ELSE SidedefAt(linedef.SidedefRight)

intersects(p, bbox) ==
    p.X > bbox.Left /\ p.X < bbox.Right /\ p.Y > bbox.Bottom /\ p.Y < bbox.Top

(***************************************************************************)
(* findSector (godoom.go).  One invocation is one action; what it does is  *)
(* [kind, sector, next, examined, seg, via, node]:                         *)
(*   kind      "sector" (returns &level.Sectors[sector]), "none" (returns  *)
(*             nil), "call" (returns findSector(.., next)) or "panic";     *)
(*   examined  <<the index used on level.SSectors>>, <<>> when none was;   *)
(*   seg, via  the seg that decided a "sector" and the sidedef ("near",    *)
(*             "opposite") it came from;                                   *)
(*   node      <<the index used on level.Nodes>>, <<>> when none was.      *)
(***************************************************************************)
FsResult(kind, sector, next, examined, seg, via, node) ==
    [kind |-> kind, sector |-> sector, next |-> next, examined |-> examined,
     seg |-> seg, via |-> via, node |-> node]

\* &level.Sectors[sidedef.SectorRef]
SectorOf(sd, examined, seg, via) ==
    IF Sidedefs[sd.ref].SectorRef \in DOMAIN Sectors
    THEN FsResult("sector", Sidedefs[sd.ref].SectorRef, 0, examined, seg, via, <<>>)
    ELSE FsResult("panic", 0, 0, examined, seg, via, <<>>)

\* Lines 340-351: the loop over the segs of a subsector, from segIdx on; "fall"
\* when the loop ends without a return.
RECURSIVE segLoop(_, _, _)
segLoop(ssector, segIdx, examined) ==
    IF ~(segIdx < Int16(ssector.StartSeg + ssector.Numsegs))
    THEN FsResult("fall", 0, 0, examined, 0, "", <<>>)
    ELSE IF segIdx \notin DOMAIN Segs
    THEN FsResult("panic", 0, 0, examined, segIdx, "", <<>>)
    ELSE IF Segs[segIdx].LineNum \notin DOMAIN Linedefs
    THEN FsResult("panic", 0, 0, examined, segIdx, "", <<>>)
    ELSE LET seg == Segs[segIdx]
             linedef == Linedefs[seg.LineNum]
             sidedef == segSidedef(seg, linedef)
             oppositeSidedef == segOppositeSidedef(seg, linedef)
         IN  IF sidedef.kind = "panic"
             THEN FsResult("panic", 0, 0, examined, segIdx, "", <<>>)
             ELSE IF sidedef.kind = "ptr"
             THEN SectorOf(sidedef, examined, segIdx, "near")
             ELSE IF oppositeSidedef.kind = "panic"
             THEN FsResult("panic", 0, 0, examined, segIdx, "", <<>>)
             ELSE IF oppositeSidedef.kind = "ptr"
             THEN SectorOf(oppositeSidedef, examined, segIdx, "opposite")
             ELSE segLoop(ssector, Int16(segIdx + 1), examined)

\* Lines 353-360 with the children tested in the other order.
nodePartChildOneFirst(idx, examined) ==
    IF idx \notin DOMAIN Nodes
    THEN FsResult("panic", 0, 0, examined, 0, "", <<idx>>)
    ELSE IF intersects(point, Nodes[idx].BBox[1])
    THEN FsResult("call", 0, Nodes[idx].Child[1], examined, 0, "", <<idx>>)
    ELSE IF intersects(point, Nodes[idx].BBox[0])
    THEN FsResult("call", 0, Nodes[idx].Child[0], examined, 0, "", <<idx>>)
    ELSE FsResult("none", 0, 0, examined, 0, "", <<idx>>)

\* Lines 353-360: the bounding-box tests on level.Nodes[idx].
nodePart(idx, examined) ==
    IF idx \notin DOMAIN Nodes
    THEN FsResult("panic", 0, 0, examined, 0, "", <<idx>>)
    ELSE IF intersects(point, Nodes[idx].BBox[0])
    THEN FsResult("call", 0, Nodes[idx].Child[0], examined, 0, "", <<idx>>)
    ELSE IF intersects(point, Nodes[idx].BBox[1])
    THEN FsResult("call", 0, Nodes[idx].Child[1], examined, 0, "", <<idx>>)
    ELSE FsResult("none", 0, 0, examined, 0, "", <<idx>>)

\* Lines 336-361: one invocation.  The leaf branch overwrites idx with the
\* decoded subsector index and, when its loop ends without a return, runs on
\* into line 353 with it.
findSector(idx) ==
    IF isSubsector(idx)
    THEN LET sub == BitAnd(Uint16(idx), Uint16(Word16 - 1 - subsectorBit)) IN
         IF sub \notin DOMAIN SSectors
         THEN FsResult("panic", 0, 0, <<sub>>, 0, "", <<>>)
         ELSE LET r == segLoop(SSectors[sub], SSectors[sub].StartSeg, <<sub>>) IN
              IF r.kind = "fall" THEN nodePart(sub, <<sub>>) ELSE r
    ELSE nodePart(idx, <<>>)

FindStackLimit == MaxFindNodes + 2

FindStep ==
    /\ fsOutcome = "running"
    /\ LET r == findSector(fsIdx) IN
       /\ fsTrail' = Append(fsTrail, [idx |-> fsIdx, did |-> r])
       /\ IF r.kind = "call"
          THEN IF fsDepth >= FindStackLimit
               THEN /\ fsOutcome' = "overflow"
                    /\ UNCHANGED <<fsIdx, fsDepth, fsSector>>
               ELSE /\ fsIdx' = r.next
                    /\ fsDepth' = fsDepth + 1
                    /\ UNCHANGED <<fsOutcome, fsSector>>
          ELSE /\ fsOutcome' = r.kind
               /\ fsSector' = IF r.kind = "sector" THEN r.sector ELSE fsSector
               /\ UNCHANGED <<fsIdx, fsDepth>>
    /\ UNCHANGED <<bspVars, levelVars, dirVars, laterVars>>

(***************************************************************************)
(* The inputs of findSector: a node array with two bounding boxes per      *)
(* node, a point, and a level of two subsectors, two segs, two linedefs,   *)
(* two sidedefs and two sectors.                                           *)
(***************************************************************************)
BoxA == [Top |-> 10, Bottom |-> 0, Left |-> 0, Right |-> 10]

BoxB == [Top |-> 10, Bottom |-> 0, Left |-> 5, Right |-> 20]

\* In A alone, in both, on A's right edge (in B alone), in neither.
FindPoints == {[X |-> 2, Y |-> 5], [X |-> 7, Y |-> 5],
               [X |-> 10, Y |-> 5], [X |-> 30, Y |-> 5]}

FindSlots == (0..(MaxFindNodes - 1)) \cup {-1, Int16Min, Int16Min + 1}

FindNodes ==
    [X : {0}, Y : {0}, DX : {1}, DY : {0},
     BBox : {Array2(BoxA, BoxB), Array2(BoxB, BoxA)},
     Child : [0..1 -> FindSlots]]

FindLinedefs ==
    {[SidedefRight |-> r, SidedefLeft |-> l] :
        <<r, l>> \in {<<0, -1>>, <<0, 1>>, <<-1, 1>>, <<-1, -1>>}}

InitFind ==
    /\ \E n \in 0..MaxFindNodes : Nodes \in [0..(n - 1) -> FindNodes]
    /\ point \in FindPoints
    /\ \E n0 \in 0..2 :
          SSectors = Array2([Numsegs |-> n0, StartSeg |-> 0],
                            [Numsegs |-> 1, StartSeg |-> 1])
    /\ \E sd \in 0..1 :
          Segs = Array2([LineNum |-> 0, Segside |-> sd],
                        [LineNum |-> 1, Segside |-> 0])
    /\ \E l0 \in FindLinedefs :
          Linedefs = Array2(l0, [SidedefRight |-> 1, SidedefLeft |-> -1])
    /\ \E ref \in 1..2 :
          Sidedefs = Array2([SectorRef |-> 0], [SectorRef |-> ref])
    /\ Sectors = Array2([FloorHeight |-> 0, CeilingHeight |-> 64],
                       [FloorHeight |-> 64, CeilingHeight |-> 128])
    \* game(): findSector(level, point, len(level.Nodes)-1)
    /\ fsIdx = NumNodes - 1
    /\ fsDepth = 1
    /\ fsOutcome = "running"
    /\ fsSector = -1
    /\ fsTrail = <<>>
    /\ side = <<>>
    /\ IdleBsp /\ IdleDir /\ IdleLater

NextFind == FindStep

SpecFind == InitFind /\ [][NextFind]_vars

(***************************************************************************)
(* The level, stated without findSector.                                   *)
(***************************************************************************)
Contains(box) ==
    /\ box.Left < point.X /\ point.X < box.Right
    /\ box.Bottom < point.Y /\ point.Y < box.Top

\* The sidedef references of a seg: on its own side of the line, and across it.
NearRef(s) ==
    IF Segs[s].Segside = 0 THEN Linedefs[Segs[s].LineNum].SidedefRight
    ELSE Linedefs[Segs[s].LineNum].SidedefLeft

OppositeRef(s) ==
    IF Segs[s].Segside = 0 THEN Linedefs[Segs[s].LineNum].SidedefLeft
    ELSE Linedefs[Segs[s].LineNum].SidedefRight

SegRange(k) ==
    {s \in DOMAIN Segs :
        SSectors[k].StartSeg <= s /\ s < SSectors[k].StartSeg + SSectors[k].Numsegs}

SegsWithSidedef(k) == {s \in SegRange(k) : NearRef(s) # -1 \/ OppositeRef(s) # -1}

FirstOf(S) == CHOOSE s \in S : \A t \in S : s <= t

SectorRefOfSeg(s) ==
    IF NearRef(s) # -1 THEN Sidedefs[NearRef(s)].SectorRef
    ELSE Sidedefs[OppositeRef(s)].SectorRef

\* A subsector whose first seg has its near sidedef, with a sector in range.
SoundLeaf(k) ==
    /\ k \in DOMAIN SSectors
    /\ SSectors[k].Numsegs > 0
    /\ SSectors[k].StartSeg \in DOMAIN Segs
    /\ NearRef(SSectors[k].StartSeg) \in DOMAIN Sidedefs
    /\ Sidedefs[NearRef(SSectors[k].StartSeg)].SectorRef \in DOMAIN Sectors

LastStep == fsTrail[Len(fsTrail)]

\* The invocation after the i-th one runs on slot value c, unless the stack ran out.
NextRunsOn(i, c) ==
    IF i < Len(fsTrail) THEN fsTrail[i + 1].idx = c
    ELSE (fsOutcome = "running" /\ fsIdx = c) \/ fsOutcome = "overflow"

(***************************************************************************)
(* C7: when the descent of findSector reaches the child slot -1, the       *)
(* subsector it examines is subsector 0, as in traverseBsp.                *)
(***************************************************************************)
C7_SentinelIsSubsectorZero ==
    \A i \in 2..Len(fsTrail) :
        fsTrail[i].idx = -1 => fsTrail[i].did.examined = <<0>>

(***************************************************************************)
(* C8: at an internal node findSector goes on with child 0 when box 0      *)
(* contains the point, else with child 1 when box 1 contains it, and       *)
(* returns none when neither does; what the child's invocation returns is  *)
(* the result.  On one node with two sound leaves the result is the sector *)
(* of the leaf so chosen, and none for a point outside both boxes.         *)
(***************************************************************************)
C8_FirstContainingBox ==
    /\ \A i \in 1..Len(fsTrail) :
          LET idx == fsTrail[i].idx IN
          (~SlotIsLeaf(idx) /\ idx \in DOMAIN Nodes) =>
              IF Contains(Nodes[idx].BBox[0])
              THEN NextRunsOn(i, Nodes[idx].Child[0])
              ELSE IF Contains(Nodes[idx].BBox[1])
              THEN NextRunsOn(i, Nodes[idx].Child[1])
              ELSE i = Len(fsTrail) /\ fsOutcome = "none"
    /\ (/\ NumNodes = 1
        /\ fsOutcome \notin {"idle", "running"}
        /\ \A c \in 0..1 : /\ Nodes[0].Child[c] \in {Int16Min, Int16Min + 1}
                           /\ SoundLeaf(Nodes[0].Child[c] - Int16Min)) =>
           LET leafOf(c) == Nodes[0].Child[c] - Int16Min
               sectorOfLeaf(k) == Sidedefs[NearRef(SSectors[k].StartSeg)].SectorRef
           IN  IF Contains(Nodes[0].BBox[0])
               THEN fsOutcome = "sector" /\ fsSector = sectorOfLeaf(leafOf(0))
               ELSE IF Contains(Nodes[0].BBox[1])
               THEN fsOutcome = "sector" /\ fsSector = sectorOfLeaf(leafOf(1))
               ELSE fsOutcome = "none"

C8_Witness ==
    /\ NumNodes = 1
    /\ fsOutcome = "sector"
    /\ Contains(Nodes[0].BBox[0]) /\ Contains(Nodes[0].BBox[1])
    /\ Nodes[0].Child[0] = Int16Min + 1 /\ Nodes[0].Child[1] = Int16Min
    /\ SoundLeaf(0) /\ SoundLeaf(1)
    /\ fsSector = 1
    /\ Sidedefs[NearRef(SSectors[0].StartSeg)].SectorRef = 0

String8Len == 8

\* Lines 190-194: the index at which the loop of ToString stops.
RECURSIVE nulIndex(_, _)
nulIndex(s, i) ==
    IF i < Len(s) /\ s[i + 1] # 0 THEN nulIndex(s, i + 1) ELSE i

ToString(s) == SubSeq(s, 1, nulIndex(s, 0))

\* m[k] = v that leaves a key already present alone.
mapStoreKeepFirst(m, k, v) ==
    [x \in DOMAIN m \cup {k} |-> IF x \in DOMAIN m THEN m[x] ELSE v]

\* m[k] = v
mapStore(m, k, v) ==
    [x \in DOMAIN m \cup {k} |-> IF x = k THEN v ELSE m[x]]

\* The bytes of "THINGS".
ThingsName == <<84, 72, 73, 78, 71, 83>>

ZeroLumpInfo == [Filepos |-> 0, Size |-> 0, Name |-> [i \in 1..String8Len |-> 0]]

\* Lines 257-262: the seek to the directory, then the three locals.
SeekInfoTables ==
    /\ rdOutcome = "seek"
    /\ IF InfoTableOfs < 0
       THEN /\ rdOutcome' = "err"
            /\ UNCHANGED <<rdLumps, rdLevels, rdLumpInfos>>
       ELSE /\ rdOutcome' = "running"
            /\ rdLumps' = <<>>
            /\ rdLevels' = <<>>
            /\ rdLumpInfos' = [i \in 0..(NumLumps - 1) |-> ZeroLumpInfo]
    /\ rdI' = 0
    /\ UNCHANGED <<dir, NumLumps, InfoTableOfs, wLumps, wLevels, wLumpInfos>>
    /\ UNCHANGED <<bspVars, levelVars, findVars, laterVars>>

\* One turn of the loop that takes the THINGS entry itself for the level.
ReadLumpInfoAnchorSelf ==
    /\ rdOutcome = "running"
    /\ rdI < NumLumps
    /\ IF rdI \notin DOMAIN dir
       THEN /\ rdOutcome' = "err"
            /\ UNCHANGED <<rdI, rdLumps, rdLevels, rdLumpInfos>>
       ELSE LET lumpInfo == dir[rdI]
            IN  /\ rdLevels' =
                     IF ToString(lumpInfo.Name) = ThingsName
                     THEN mapStore(rdLevels, ToString(lumpInfo.Name), rdI)
                     ELSE rdLevels
                /\ rdLumps' = mapStore(rdLumps, ToString(lumpInfo.Name), rdI)
                /\ rdLumpInfos' = [rdLumpInfos EXCEPT ![rdI] = lumpInfo]
                /\ rdI' = rdI + 1
                /\ UNCHANGED rdOutcome
    /\ UNCHANGED <<dir, NumLumps, InfoTableOfs, wLumps, wLevels, wLumpInfos>>
    /\ UNCHANGED <<bspVars, levelVars, findVars, laterVars>>

\* Lines 263-275: one turn of the loop.
ReadLumpInfo ==
    /\ rdOutcome = "running"
    /\ rdI < NumLumps
    /\ IF rdI \notin DOMAIN dir
       THEN \* binary.Read meets the end of the file
            /\ rdOutcome' = "err"
            /\ UNCHANGED <<rdI, rdLumps, rdLevels, rdLumpInfos>>
       ELSE LET lumpInfo == dir[rdI]
                levelIdx == rdI - 1
            IN  IF ToString(lumpInfo.Name) = ThingsName /\ levelIdx \notin DOMAIN rdLumpInfos
                THEN /\ rdOutcome' = "panic"
                     /\ UNCHANGED <<rdI, rdLumps, rdLevels, rdLumpInfos>>
                ELSE /\ rdLevels' =
                          IF ToString(lumpInfo.Name) = ThingsName
                          THEN mapStore(rdLevels, ToString(rdLumpInfos[levelIdx].Name), levelIdx)
                          ELSE rdLevels
                     /\ rdLumps' = mapStore(rdLumps, ToString(lumpInfo.Name), rdI)
                     /\ rdLumpInfos' = [rdLumpInfos EXCEPT ![rdI] = lumpInfo]
                     /\ rdI' = rdI + 1
                     /\ UNCHANGED rdOutcome
    /\ UNCHANGED <<dir, NumLumps, InfoTableOfs, wLumps, wLevels, wLumpInfos>>
    /\ UNCHANGED <<bspVars, levelVars, findVars, laterVars>>

\* Lines 276-279: the loop is over; the locals become the fields of w.
FinishInfoTables ==
    /\ rdOutcome = "running"
    /\ ~(rdI < NumLumps)
    /\ wLevels' = rdLevels
    /\ wLumps' = rdLumps
    /\ wLumpInfos' = rdLumpInfos
    /\ rdOutcome' = "ok"
    /\ UNCHANGED <<dir, NumLumps, InfoTableOfs, rdI, rdLumps, rdLevels, rdLumpInfos>>
    /\ UNCHANGED <<bspVars, levelVars, findVars, laterVars>>

(***************************************************************************)
(* The inputs of readInfoTables: a directory of up to MaxLumps entries     *)
(* and a header that may declare one entry more than the file holds.       *)
(***************************************************************************)
Pad8(s) == s \o [i \in 1..(String8Len - Len(s)) |-> 0]

\* THINGS, E1M1, E1M1 with a byte after its NUL, E1M2, LINEDEFS (no NUL).
RawNames ==
    {Pad8(ThingsName),
     Pad8(<<69, 49, 77, 49>>),
     <<69, 49, 77, 49, 0, 88, 0, 0>>,
     Pad8(<<69, 49, 77, 50>>),
     <<76, 73, 78, 69, 68, 69, 70, 83>>}

InitDir ==
    /\ \E k \in 0..MaxLumps :
          /\ \E names \in [0..(k - 1) -> RawNames] :
                dir = [i \in 0..(k - 1) |->
                          [Filepos |-> 12 + 16 * i, Size |-> 0, Name |-> names[i]]]
          /\ NumLumps \in 0..(k + 1)
    /\ InfoTableOfs \in {-1, 12}
    /\ rdI = 0
    /\ rdLumps = <<>> /\ rdLevels = <<>> /\ rdLumpInfos = <<>>
    /\ rdOutcome = "seek"
    /\ wLumps = "nil" /\ wLevels = "nil" /\ wLumpInfos = "nil"
    /\ side = <<>>
    /\ Nodes = <<>>
    /\ point = [X |-> 0, Y |-> 0]
    /\ IdleBsp /\ IdleLevel /\ IdleFind /\ IdleLater

NextDir == SeekInfoTables \/ ReadLumpInfo \/ FinishInfoTables

SpecDir == InitDir /\ [][NextDir]_vars

(***************************************************************************)
(* The directory, stated without readInfoTables.                           *)
(***************************************************************************)
\* A name cut at its first NUL byte.
TruncAtNul(s) ==
    LET Z == {i \in 1..Len(s) : s[i] = 0}
    IN  IF Z = {} THEN s ELSE SubSeq(s, 1, FirstOf(Z) - 1)

Declared == 0..(NumLumps - 1)

IndicesNamed(s) == {i \in Declared : TruncAtNul(dir[i].Name) = s}

LastOf(S) == CHOOSE s \in S : \A t \in S : t <= s

(***************************************************************************)
(* C10: after readInfoTables, w.lumpInfos holds the directory entries in   *)
(* on-disk order and w.lumps maps every name that occurs in the directory  *)
(* (cut at its first NUL) to the greatest index that bears it.             *)
(***************************************************************************)
C10_LastOccurrenceWins ==
    rdOutcome = "ok" =>
        /\ DOMAIN wLumpInfos = Declared
        /\ \A i \in Declared : wLumpInfos[i] = dir[i]
        /\ DOMAIN wLumps = {TruncAtNul(dir[i].Name) : i \in Declared}
        /\ \A s \in DOMAIN wLumps : wLumps[s] = LastOf(IndicesNamed(s))

C10_Witness ==
    /\ rdOutcome = "ok"
    /\ NumLumps = 3
    /\ dir[0].Name # dir[2].Name
    /\ TruncAtNul(dir[0].Name) = TruncAtNul(dir[2].Name)
    /\ wLumps[TruncAtNul(dir[0].Name)] = 2

(***************************************************************************)
(* C11: after readInfoTables, w.levels holds, for every directory index i  *)
(* whose entry is named THINGS, the pair (name of entry i-1, i-1), the     *)
(* greatest such index when a level name repeats, and holds nothing else.  *)
(* No THINGS entry is at index 0 when readInfoTables returns.              *)
(***************************************************************************)
ThingsAt == {i \in Declared : TruncAtNul(dir[i].Name) = ThingsName}

AnchorsNamed(s) == {i - 1 : i \in {j \in ThingsAt : TruncAtNul(dir[j - 1].Name) = s}}

C11_LevelsAreThingsAnchors ==
    rdOutcome = "ok" =>
        /\ 0 \notin ThingsAt
        /\ DOMAIN wLevels = {TruncAtNul(dir[i - 1].Name) : i \in ThingsAt}
        /\ \A s \in DOMAIN wLevels : wLevels[s] = LastOf(AnchorsNamed(s))

C11_Witness ==
    /\ rdOutcome = "ok"
    /\ NumLumps = 4
    /\ ThingsAt = {1, 3}
    /\ dir[0].Name # dir[2].Name
    /\ DOMAIN wLevels = {TruncAtNul(dir[0].Name)}
    /\ wLevels[TruncAtNul(dir[0].Name)] = 2

(***************************************************************************)
(* The archive as a whole: ReadWAD and the calls on the WAD it returns     *)
(* (LevelNames, ReadLevel, LoadTexture, LoadFlat).                         *)
(*                                                                         *)
(* Strings are sequences of bytes.  The names the code compares with, and  *)
(* the names of the lumps of the archives below:                           *)
(***************************************************************************)
\* "PLAYPAL"
PlaypalName == <<80, 76, 65, 89, 80, 65, 76>>

\* "PNAMES"
PnamesName == <<80, 78, 65, 77, 69, 83>>

\* "TEXTURE1"
Texture1Name == <<84, 69, 88, 84, 85, 82, 69, 49>>

\* "TEXTURE2"
Texture2Name == <<84, 69, 88, 84, 85, 82, 69, 50>>

\* "F_START"
FStartName == <<70, 95, 83, 84, 65, 82, 84>>

\* "F_END"
FEndName == <<70, 95, 69, 78, 68>>

\* "LINEDEFS"
LinedefsName == <<76, 73, 78, 69, 68, 69, 70, 83>>

\* "SIDEDEFS"
SidedefsName == <<83, 73, 68, 69, 68, 69, 70, 83>>

\* "VERTEXES"
VertexesName == <<86, 69, 82, 84, 69, 88, 69, 83>>

\* "SEGS"
SegsName == <<83, 69, 71, 83>>

\* "SSECTORS"
SSectorsName == <<83, 83, 69, 67, 84, 79, 82, 83>>

\* "NODES"
NodesName == <<78, 79, 68, 69, 83>>

\* "SECTORS"
SectorsName == <<83, 69, 67, 84, 79, 82, 83>>

\* "REJECT"
RejectName == <<82, 69, 74, 69, 67, 84>>

\* "BLOCKMAP"
BlockmapName == <<66, 76, 79, 67, 75, 77, 65, 80>>

\* "WALL1"
Wall1Name == <<87, 65, 76, 76, 49>>

\* "BIG1"
Big1Name == <<66, 73, 71, 49>>

\* "WALL2"
Wall2Name == <<87, 65, 76, 76, 50>>

\* "TALL1"
Tall1Name == <<84, 65, 76, 76, 49>>

\* "FLAT1"
Flat1Name == <<70, 76, 65, 84, 49>>

\* "E1M1"
E1M1Name == <<69, 49, 77, 49>>

\* "E1M2"
E1M2Name == <<69, 49, 77, 50>>

\* "TEX1"
Tex1Name == <<84, 69, 88, 49>>

\* "NOSUCH"
NoSuchName == <<78, 79, 83, 85, 67, 72>>

\* "IWAD"
IwadMagic == <<73, 87, 65, 68>>

\* "PWAD"
PwadMagic == <<80, 87, 65, 68>>

\* "iwad"
LowerMagic == <<105, 119, 97, 100>>

(***************************************************************************)
(* The file.  Its lumps lie at fixed offsets: the assets first, then the   *)
(* lumps of the level groups.  The directory names any of them, in any     *)
(* order, or leaves them out.                                              *)
(***************************************************************************)
\* The most lumps that follow a level's anchor in the directory.
MaxLevelLumps == 10

AssetNames ==
    <<PlaypalName, PnamesName, Wall1Name, Big1Name, Wall2Name, Tall1Name,
      Texture1Name, FStartName, Flat1Name, FEndName>>

\* The lumps that follow the anchor of a level, in the order DOOM writes them.
LevelLumpNames ==
    <<ThingsName, LinedefsName, SidedefsName, VertexesName, SegsName,
      SSectorsName, NodesName, SectorsName, RejectName, BlockmapName>>

LevelLumpName(j) == IF j <= Len(LevelLumpNames) THEN LevelLumpNames[j] ELSE BlockmapName

LumpSize == 100

\* The offset of the j-th asset and of the j-th lump of level group g (0: the anchor).
AssetPos(j) == 1000 * j

LevelPos(g, j) == 20000 * g + LumpSize * j

FullSize == 60000

\* The offset of the directory, right behind the 12 bytes of the header.
DirOfs == 12

\* What the bytes at an offset decode to when they are read as a table of patch
\* names, as the header of a picture, as a table of textures.
NoContent == [pnames |-> <<>>, pic |-> [Width |-> 0, Height |-> 0], texs |-> <<>>]

ContentAt(off) ==
    IF off = AssetPos(2)
    THEN [NoContent EXCEPT
             !.pnames = <<Pad8(Wall1Name), Pad8(Big1Name), Pad8(Wall2Name), Pad8(Tall1Name)>>]
    ELSE IF off = AssetPos(3) THEN [NoContent EXCEPT !.pic = [Width |-> 1, Height |-> 1]]
    ELSE IF off = AssetPos(4) THEN [NoContent EXCEPT !.pic = [Width |-> 4097, Height |-> 1]]
    ELSE IF off = AssetPos(5) THEN [NoContent EXCEPT !.pic = [Width |-> 2, Height |-> 1]]
    ELSE IF off = AssetPos(6) THEN [NoContent EXCEPT !.pic = [Width |-> 1, Height |-> 4097]]
    ELSE IF off = AssetPos(7) THEN [NoContent EXCEPT !.texs = <<Pad8(Tex1Name)>>]
    ELSE NoContent

\* file.Seek fails on a negative offset; a read fails at or behind the end of the file.
seekFails(off) == off < 0

readFails(off) == ~(off < fileEnd)

Entry(name, pos) == [Filepos |-> pos, Size |-> LumpSize, Name |-> Pad8(name)]

AssetEntries == [j \in 1..Len(AssetNames) |-> Entry(AssetNames[j], AssetPos(j))]

\* The anchor of level group g and the first t lumps of the level.
LevelEntries(g, anchor, t) ==
    <<Entry(anchor, LevelPos(g, 0))>>
        \o [j \in 1..t |-> Entry(LevelLumpName(j), LevelPos(g, j))]

\* seq without its d-th element (d = 0: all of seq).
Drop(seq, d) ==
    IF d = 0 THEN seq ELSE SubSeq(seq, 1, d - 1) \o SubSeq(seq, d + 1, Len(seq))

\* seq as a Go slice, indexed from 0.
ZeroBased(seq) == [i \in 0..(Len(seq) - 1) |-> seq[i + 1]]

FullArchive == AssetEntries \o LevelEntries(1, E1M1Name, MaxLevelLumps)

\* The ways in which the archive on disk is broken.
Faults ==
    {"nofile", "shortheader", "pwad", "lowercase", "badofs", "morelumps", "nolumps",
     "cutassets", "cutlevels"}

\* ReadWAD is about to run and nothing has been read.
FreshWad ==
    /\ wadPc = "header" /\ wadTrace = <<"header">> /\ wadRet = <<>>
    /\ wPlaypal = <<>> /\ wPnames = <<>> /\ plI = 0 /\ plPatches = <<>>
    /\ wPatches = <<>> /\ wTextures = <<>> /\ wFlats = <<>>
    /\ lnResults = <<>>
    /\ rlName = <<>> /\ rlI = 0 /\ rlOutcome = "idle" /\ rlLevel = <<>> /\ rlReads = {}
    /\ ldResult = <<>>
    /\ rdI = 0 /\ rdLumps = <<>> /\ rdLevels = <<>> /\ rdLumpInfos = <<>>
    /\ rdOutcome = "idle"
    /\ wLumps = "nil" /\ wLevels = "nil" /\ wLumpInfos = "nil"
    /\ side = <<>> /\ Nodes = <<>> /\ point = [X |-> 0, Y |-> 0]
    /\ IdleBsp /\ IdleLevel /\ IdleFind /\ IdlePatch /\ IdleTex /\ IdleCache
    /\ IdleGen

\* A sound file whose directory lists the level E1M2 or not, the assets or all
\* but one of them, and the anchor E1M1 followed by t lumps, before or behind
\* the assets.
InitWadShapes ==
    \E second \in BOOLEAN, d \in 0..Len(AssetNames), t \in 0..MaxLevelLumps,
       levelFirst \in BOOLEAN :
        LET assets == Drop(AssetEntries, d)
            level == LevelEntries(1, E1M1Name, t)
            other == IF second THEN LevelEntries(2, E1M2Name, 1) ELSE <<>>
            all == other \o (IF levelFirst THEN level \o assets ELSE assets \o level)
        IN  /\ dir = ZeroBased(all)
            /\ NumLumps = Len(all)
            /\ InfoTableOfs = DirOfs
            /\ fileOpens = TRUE
            /\ hdrMagic = IwadMagic
            /\ fileEnd = FullSize

\* The full archive with one fault.
InitWadFaults ==
    \E fault \in Faults :
        /\ dir = ZeroBased(FullArchive)
        /\ NumLumps = CASE fault = "morelumps" -> Len(FullArchive) + 1
                        [] fault = "nolumps" -> 0
                        [] OTHER -> Len(FullArchive)
        /\ InfoTableOfs = IF fault = "badofs" THEN -1 ELSE DirOfs
        /\ fileOpens = (fault # "nofile")
        /\ hdrMagic = CASE fault = "shortheader" -> <<>>
                        [] fault = "pwad" -> PwadMagic
                        [] fault = "lowercase" -> LowerMagic
                        [] OTHER -> IwadMagic
        /\ fileEnd = CASE fault = "cutassets" -> AssetPos(2)
                       [] fault = "cutlevels" -> LevelPos(1, 0)
                       [] OTHER -> FullSize

\* The full archive with one entry whose Filepos is negative.
InitWadBadPos ==
    \E b \in 1..Len(FullArchive) :
        /\ dir = ZeroBased([FullArchive EXCEPT ![b].Filepos = -1])
        /\ NumLumps = Len(FullArchive)
        /\ InfoTableOfs = DirOfs
        /\ fileOpens = TRUE
        /\ hdrMagic = IwadMagic
        /\ fileEnd = FullSize

InitWad == FreshWad /\ (InitWadShapes \/ InitWadFaults \/ InitWadBadPos)

(***************************************************************************)
(* ReadWAD (wad.go), one action per stage; the directory stage is          *)
(* readInfoTables above.                                                   *)
(***************************************************************************)
wadInputs == <<fileOpens, hdrMagic, fileEnd>>

wadFields == <<wPlaypal, wPnames, wPatches, wTextures, wFlats>>

wadCalls == <<lnResults, rlName, rlI, rlOutcome, rlLevel, rlReads, ldResult>>

wadOthers == <<bspVars, levelVars, findVars, patchVars, texVars, cacheVars, genVars>>

\* m[k] of a Go map: the zero value when k is absent.
mapLookup(m, k, zero) == IF k \in DOMAIN m THEN m[k] ELSE zero

\* ReadWAD goes on with the next stage.
Goto(stage) ==
    /\ wadPc' = stage
    /\ wadTrace' = Append(wadTrace, stage)
    /\ UNCHANGED wadRet

\* A return that hands out the WAD together with the error.
ReturnErrWithWad ==
    /\ wadPc' = "returned"
    /\ wadRet' = <<"wad", "err">>
    /\ UNCHANGED wadTrace

\* return nil, err
ReturnErr ==
    /\ wadPc' = "returned"
    /\ wadRet' = <<"nil", "err">>
    /\ UNCHANGED wadTrace

\* A run-time panic ends ReadWAD without a return.
Panic ==
    /\ wadPc' = "panic"
    /\ UNCHANGED <<wadTrace, wadRet>>

\* Lines 201-211: os.Open, then readHeader.
ReadHeader ==
    /\ wadPc = "header"
    /\ IF ~fileOpens \/ hdrMagic = <<>> THEN ReturnErr ELSE Goto("magic")
    /\ UNCHANGED <<wadInputs, wadFields, plI, plPatches, wadCalls>>
    /\ UNCHANGED <<dirVars, wadOthers>>

\* A check that takes the magic of a patch archive as well.
magicOkAnyWad(magic) == magic \in {IwadMagic, PwadMagic}

\* Line 212: string(header.Magic[:]) != "IWAD", negated.
magicOk(magic) == magic = IwadMagic

\* Lines 212-215: the check of the magic, then the call of readInfoTables.
CheckMagic ==
    /\ wadPc = "magic"
    /\ IF ~magicOk(hdrMagic)
       THEN ReturnErr /\ UNCHANGED rdOutcome
       ELSE Goto("directory") /\ rdOutcome' = "seek"
    /\ UNCHANGED <<wadInputs, wadFields, plI, plPatches, wadCalls>>
    /\ UNCHANGED <<dir, NumLumps, InfoTableOfs, rdI, rdLumps, rdLevels, rdLumpInfos,
                   wLumps, wLevels, wLumpInfos>>
    /\ UNCHANGED wadOthers

\* Lines 215-217: readInfoTables is over.
ReturnFromInfoTables ==
    /\ wadPc = "directory"
    /\ rdOutcome \in {"ok", "err", "panic"}
    /\ CASE rdOutcome = "ok" -> Goto("playpal")
         [] rdOutcome = "err" -> ReturnErr
         [] rdOutcome = "panic" -> Panic
    /\ UNCHANGED <<wadInputs, wadFields, plI, plPatches, wadCalls>>
    /\ UNCHANGED <<dirVars, wadOthers>>

\* Lines 218-223 and 282-294: readPlaypal.
ReadPlaypal ==
    /\ wadPc = "playpal"
    /\ LET playpalLump == mapLookup(wLumps, PlaypalName, 0)
       IN  IF playpalLump \notin DOMAIN wLumpInfos
           THEN Panic /\ UNCHANGED wPlaypal
           ELSE LET lumpInfo == wLumpInfos[playpalLump]
                IN  IF seekFails(lumpInfo.Filepos) \/ readFails(lumpInfo.Filepos)
                    THEN ReturnErr /\ UNCHANGED wPlaypal
                    ELSE Goto("pnames") /\ wPlaypal' = <<lumpInfo.Filepos>>
    /\ UNCHANGED <<wadInputs, wPnames, wPatches, wTextures, wFlats, plI, plPatches, wadCalls>>
    /\ UNCHANGED <<dirVars, wadOthers>>

\* Lines 224-228 and 296-312: readPatchNames.
ReadPatchNames ==
    /\ wadPc = "pnames"
    /\ LET pnamesLump == mapLookup(wLumps, PnamesName, 0)
       IN  IF pnamesLump \notin DOMAIN wLumpInfos
           THEN Panic /\ UNCHANGED wPnames
           ELSE LET lumpInfo == wLumpInfos[pnamesLump]
                IN  IF seekFails(lumpInfo.Filepos) \/ readFails(lumpInfo.Filepos)
                    THEN ReturnErr /\ UNCHANGED wPnames
                    ELSE Goto("patches") /\ wPnames' = ContentAt(lumpInfo.Filepos).pnames
    /\ UNCHANGED <<wadInputs, wPlaypal, wPatches, wTextures, wFlats, plI, plPatches, wadCalls>>
    /\ UNCHANGED <<dirVars, wadOthers>>

\* The sanity bound on the width and the height of a picture (line 334).
MaxPictureSide == 4096

\* A check that lets every picture through.
oversizedNever(header) == FALSE

\* Line 334.
oversized(header) == header.Width > MaxPictureSide \/ header.Height > MaxPictureSide

\* Lines 316-366: one turn of the range loop of readPatchLumps.  The Image
\* is the header's size and the offset of the lump its pixels come from.
ReadPatchLump ==
    /\ wadPc = "patches"
    /\ plI < Len(wPnames)
    /\ LET pname == wPnames[plI + 1]
           lumpIdx == mapLookup(wLumps, ToString(pname), 0)
       IN  IF lumpIdx \notin DOMAIN wLumpInfos
           THEN Panic /\ UNCHANGED <<plI, plPatches>>
           ELSE LET lumpInfo == wLumpInfos[lumpIdx]
                    header == ContentAt(lumpInfo.Filepos).pic
                IN  IF seekFails(lumpInfo.Filepos) \/ readFails(lumpInfo.Filepos)
                    THEN ReturnErr /\ UNCHANGED <<plI, plPatches>>
                    ELSE /\ plI' = plI + 1
                         /\ plPatches' =
                              IF oversized(header)
                              THEN plPatches
                              ELSE mapStore(plPatches, ToString(pname),
                                            [Width |-> header.Width, Height |-> header.Height,
                                             from |-> lumpInfo.Filepos])
                         /\ UNCHANGED <<wadPc, wadTrace, wadRet>>
    /\ UNCHANGED <<wadInputs, wadFields, wadCalls>>
    /\ UNCHANGED <<dirVars, wadOthers>>

\* Lines 229-233 and 368: the range loop is over.
FinishPatchLumps ==
    /\ wadPc = "patches"
    /\ ~(plI < Len(wPnames))
    /\ wPatches' = plPatches
    /\ Goto("textures")
    /\ UNCHANGED <<wadInputs, wPlaypal, wPnames, wTextures, wFlats, plI, plPatches, wadCalls>>
    /\ UNCHANGED <<dirVars, wadOthers>>

\* Lines 372-378: the lumps TEXTURE1 and TEXTURE2 that the directory has.
textureLumps ==
    (IF Texture1Name \in DOMAIN wLumps THEN <<wLumps[Texture1Name]>> ELSE <<>>)
        \o (IF Texture2Name \in DOMAIN wLumps THEN <<wLumps[Texture2Name]>> ELSE <<>>)

\* Lines 392-408: the textures of one lump go into the map.
RECURSIVE storeTextures(_, _, _)
storeTextures(m, names, from) ==
    IF names = <<>> THEN m
    ELSE storeTextures(mapStore(m, ToString(Head(names)), [Header |-> "header", from |-> from]),
                       Tail(names), from)

\* Lines 380-410: the loop over textureLumps.
RECURSIVE textureLoop(_, _)
textureLoop(m, lumps) ==
    IF lumps = <<>> THEN m
    ELSE LET lumpInfo == wLumpInfos[Head(lumps)]
         IN  textureLoop(storeTextures(m, ContentAt(lumpInfo.Filepos).texs, lumpInfo.Filepos),
                         Tail(lumps))

\* Lines 234-238 and 371-412: readTextureLumps.
ReadTextureLumps ==
    /\ wadPc = "textures"
    /\ IF \E k \in 1..Len(textureLumps) :
              \/ seekFails(wLumpInfos[textureLumps[k]].Filepos)
              \/ readFails(wLumpInfos[textureLumps[k]].Filepos)
       THEN ReturnErr /\ UNCHANGED wTextures
       ELSE Goto("flats") /\ wTextures' = textureLoop(<<>>, textureLumps)
    /\ UNCHANGED <<wadInputs, wPlaypal, wPnames, wPatches, wFlats, plI, plPatches, wadCalls>>
    /\ UNCHANGED <<dirVars, wadOthers>>

\* Lines 424-436: the loop from F_START up to F_END, the last entry of a name
\* being the one that stays in the map.
flatLoop(startLump, endLump) ==
    LET range == {i \in startLump..(endLump - 1) : TRUE}
        names == {ToString(wLumpInfos[i].Name) : i \in range}
    IN  [n \in names |->
            [from |-> wLumpInfos[CHOOSE i \in range :
                                    /\ ToString(wLumpInfos[i].Name) = n
                                    /\ \A j \in range :
                                          ToString(wLumpInfos[j].Name) = n => j <= i].Filepos]]

\* Lines 239-245 and 414-438: readFlatLumps, then the return of the WAD.
ReadFlatLumps ==
    /\ wadPc = "flats"
    /\ IF FStartName \notin DOMAIN wLumps \/ FEndName \notin DOMAIN wLumps
       THEN ReturnErr /\ UNCHANGED wFlats
       ELSE LET startLump == wLumps[FStartName]
                endLump == wLumps[FEndName]
            IN  IF \E i \in startLump..(endLump - 1) :
                      \/ seekFails(wLumpInfos[i].Filepos)
                      \/ readFails(wLumpInfos[i].Filepos)
                THEN ReturnErr /\ UNCHANGED wFlats
                ELSE /\ wFlats' = flatLoop(startLump, endLump)
                     /\ wadPc' = "returned"
                     /\ wadRet' = <<"wad", "nil">>
                     /\ UNCHANGED wadTrace
    /\ UNCHANGED <<wadInputs, wPlaypal, wPnames, wPatches, wTextures, plI, plPatches, wadCalls>>
    /\ UNCHANGED <<dirVars, wadOthers>>

(***************************************************************************)
(* The calls on the WAD that ReadWAD returned.                             *)
(***************************************************************************)
\* The number of calls of LevelNames in one run.
MaxLevelNamesCalls == 2

\* a < b on Go strings: byte by byte.
RECURSIVE strLess(_, _)
strLess(a, b) ==
    IF b = <<>> THEN FALSE
    ELSE IF a = <<>> THEN TRUE
    ELSE IF a[1] # b[1] THEN a[1] < b[1]
    ELSE strLess(Tail(a), Tail(b))

RECURSIVE insertSorted(_, _)
insertSorted(seq, x) ==
    IF seq = <<>> THEN <<x>>
    ELSE IF strLess(x, Head(seq)) THEN <<x>> \o seq
    ELSE <<Head(seq)>> \o insertSorted(Tail(seq), x)

\* A LevelNames that leaves the names in the order of the map iteration.
sortStringsNot(seq) == seq

\* sort.Strings
RECURSIVE sortStrings(_)
sortStrings(seq) ==
    IF seq = <<>> THEN <<>> ELSE insertSorted(sortStrings(Tail(seq)), Head(seq))

\* The orders in which a range loop may run through the keys of a map.
rangeOrders(m) ==
    {f \in [1..Cardinality(DOMAIN m) -> DOMAIN m] : \A k \in DOMAIN m : \E i \in DOMAIN f : f[i] = k}

WadReturned == wadRet = <<"wad", "nil">>

\* Lines 466-474.
LevelNames ==
    /\ WadReturned
    /\ Len(lnResults) < MaxLevelNamesCalls
    /\ \E order \in rangeOrders(wLevels) :
          lnResults' = Append(lnResults, sortStrings(order))
    /\ UNCHANGED <<wadInputs, wadFields, plI, plPatches, wadPc, wadTrace, wadRet>>
    /\ UNCHANGED <<rlName, rlI, rlOutcome, rlLevel, rlReads, ldResult>>
    /\ UNCHANGED <<dirVars, wadOthers>>

LevelFields ==
    {"Things", "Linedefs", "Sidedefs", "Vertexes", "Segs", "SSectors", "Nodes", "Sectors"}

\* Lines 485-535: the array of the Level that a lump name selects.
levelField(name) ==
    CASE name = ThingsName -> "Things"
      [] name = SidedefsName -> "Sidedefs"
      [] name = LinedefsName -> "Linedefs"
      [] name = VertexesName -> "Vertexes"
      [] name = SegsName -> "Segs"
      [] name = SSectorsName -> "SSectors"
      [] name = NodesName -> "Nodes"
      [] name = SectorsName -> "Sectors"
      [] OTHER -> "default"

\* Line 479: w.levels[name]
levelIdxOf(name) == mapLookup(wLevels, name, 0)

\* Line 480: the end of the loop.
levelEnd(levelIdx) == levelIdx + 11

\* The names ReadLevel is called with.
LevelCallNames == {E1M1Name, E1M2Name, NoSuchName}

\* Lines 477-480: the call.  A run calls ReadLevel or a loader, once.
ReadLevel(name) ==
    /\ WadReturned
    /\ rlOutcome = "idle"
    /\ ldResult = <<>>
    /\ rlName' = name
    /\ rlI' = levelIdxOf(name) + 1
    /\ rlOutcome' = "running"
    /\ rlLevel' = [f \in LevelFields |-> <<>>]
    /\ rlReads' = {}
    /\ UNCHANGED <<wadInputs, wadFields, plI, plPatches, wadPc, wadTrace, wadRet>>
    /\ UNCHANGED <<lnResults, ldResult>>
    /\ UNCHANGED <<dirVars, wadOthers>>

\* Lines 480-537: one turn of the loop.
ReadLevelStep ==
    /\ rlOutcome = "running"
    /\ rlI < levelEnd(levelIdxOf(rlName))
    /\ rlReads' = rlReads \cup {rlI}
    /\ IF rlI \notin DOMAIN wLumpInfos
       THEN rlOutcome' = "panic" /\ UNCHANGED <<rlI, rlLevel>>
       ELSE LET lumpInfo == wLumpInfos[rlI]
                field == levelField(ToString(lumpInfo.Name))
            IN  IF seekFails(lumpInfo.Filepos)
                THEN rlOutcome' = "err" /\ UNCHANGED <<rlI, rlLevel>>
                ELSE IF field = "default"
                THEN rlI' = rlI + 1 /\ UNCHANGED <<rlOutcome, rlLevel>>
                ELSE IF readFails(lumpInfo.Filepos)
                THEN rlOutcome' = "err" /\ UNCHANGED <<rlI, rlLevel>>
                ELSE /\ rlLevel' = [rlLevel EXCEPT ![field] = <<rlI>>]
                     /\ rlI' = rlI + 1
                     /\ UNCHANGED rlOutcome
    /\ UNCHANGED <<wadInputs, wadFields, plI, plPatches, wadPc, wadTrace, wadRet>>
    /\ UNCHANGED <<rlName, lnResults, ldResult>>
    /\ UNCHANGED <<dirVars, wadOthers>>

\* Line 539: return &level, nil
ReadLevelReturn ==
    /\ rlOutcome = "running"
    /\ ~(rlI < levelEnd(levelIdxOf(rlName)))
    /\ rlOutcome' = "ok"
    /\ UNCHANGED <<wadInputs, wadFields, plI, plPatches, wadPc, wadTrace, wadRet>>
    /\ UNCHANGED <<rlName, rlI, rlLevel, rlReads, lnResults, ldResult>>
    /\ UNCHANGED <<dirVars, wadOthers>>

\* Texture{} and Flat{}: the zero values.
ZeroTexture == [Header |-> "nil", from |-> -1]

ZeroFlat == [from |-> -1]

\* The names LoadTexture and LoadFlat are called with.
LoadCallNames == {Tex1Name, Flat1Name, NoSuchName}

\* Lines 451-454.
LoadTexture(texname) ==
    /\ WadReturned
    /\ ldResult = <<>>
    /\ rlOutcome = "idle"
    /\ ldResult' = <<"texture", texname, mapLookup(wTextures, texname, ZeroTexture), "nil">>
    /\ UNCHANGED <<wadInputs, wadFields, plI, plPatches, wadPc, wadTrace, wadRet>>
    /\ UNCHANGED <<lnResults, rlName, rlI, rlOutcome, rlLevel, rlReads>>
    /\ UNCHANGED <<dirVars, wadOthers>>

\* Lines 461-464.
LoadFlat(flatname) ==
    /\ WadReturned
    /\ ldResult = <<>>
    /\ rlOutcome = "idle"
    /\ ldResult' = <<"flat", flatname, mapLookup(wFlats, flatname, ZeroFlat), "nil">>
    /\ UNCHANGED <<wadInputs, wadFields, plI, plPatches, wadPc, wadTrace, wadRet>>
    /\ UNCHANGED <<lnResults, rlName, rlI, rlOutcome, rlLevel, rlReads>>
    /\ UNCHANGED <<dirVars, wadOthers>>

NextWad ==
    \/ ReadHeader
    \/ CheckMagic
    \/ SeekInfoTables
    \/ ReadLumpInfo
    \/ FinishInfoTables
    \/ ReturnFromInfoTables
    \/ ReadPlaypal
    \/ ReadPatchNames
    \/ ReadPatchLump
    \/ FinishPatchLumps
    \/ ReadTextureLumps
    \/ ReadFlatLumps
    \/ LevelNames
    \/ \E name \in LevelCallNames : ReadLevel(name)
    \/ ReadLevelStep
    \/ ReadLevelReturn
    \/ \E texname \in LoadCallNames : LoadTexture(texname)
    \/ \E flatname \in LoadCallNames : LoadFlat(flatname)

SpecWad == InitWad /\ [][NextWad]_vars

(***************************************************************************)
(* The archive, stated without the code.                                   *)
(***************************************************************************)
\* a before b in the lexicographic order of bytes.
LexLess(a, b) ==
    \E i \in 1..Len(b) :
        /\ \A j \in 1..(i - 1) : j <= Len(a) /\ a[j] = b[j]
        /\ (i > Len(a) \/ a[i] < b[i])

Elements(seq) == {seq[i] : i \in DOMAIN seq}

StageOrder ==
    <<"header", "magic", "directory", "playpal", "pnames", "patches", "textures", "flats">>

IsPrefix(a, b) == Len(a) <= Len(b) /\ a = SubSeq(b, 1, Len(a))

(***************************************************************************)
(* C12: every call of LevelNames returns each key of w.levels exactly      *)
(* once, in strictly ascending lexicographic order, and two calls return   *)
(* the same sequence.                                                      *)
(***************************************************************************)
C12_LevelNamesSorted ==
    \A c \in DOMAIN lnResults :
        /\ Elements(lnResults[c]) = DOMAIN wLevels
        /\ Len(lnResults[c]) = Cardinality(DOMAIN wLevels)
        /\ \A i \in 1..(Len(lnResults[c]) - 1) : LexLess(lnResults[c][i], lnResults[c][i + 1])
        /\ lnResults[c] = lnResults[1]

C12_Witness ==
    /\ Len(lnResults) = 2
    /\ lnResults[2] = <<E1M1Name, E1M2Name>>
    /\ wLevels[E1M2Name] < wLevels[E1M1Name]

(***************************************************************************)
(* C13: on a WAD that ReadWAD returned, ReadLevel of a name that           *)
(* LevelNames returns (a key of w.levels) ends without an error and reads  *)
(* w.lumpInfos only at indices below the lump count, however many entries  *)
(* follow the anchor.                                                      *)
(***************************************************************************)
C13_EveryLevelReads ==
    (rlOutcome # "idle" /\ rlName \in DOMAIN wLevels) =>
        /\ rlOutcome \in {"running", "ok"}
        /\ rlReads \subseteq 0..(NumLumps - 1)

(***************************************************************************)
(* C14: a name that is absent gives a not-found error: ReadLevel of an     *)
(* unknown level returns an error and reads no entry; ReadWAD does not go  *)
(* past the palette, the patch names or a patch whose lump is not in the   *)
(* directory; LoadTexture and LoadFlat of an unknown name return an error. *)
(***************************************************************************)
C14_AbsentNameIsNotFound ==
    /\ (rlOutcome # "idle" /\ rlName \notin DOMAIN wLevels) =>
            rlOutcome = "err" /\ rlReads = {}
    /\ wPlaypal # <<>> => PlaypalName \in DOMAIN wLumps
    /\ "patches" \in Elements(wadTrace) => PnamesName \in DOMAIN wLumps
    /\ wadPc = "patches" =>
            \A k \in 1..plI : TruncAtNul(wPnames[k]) \in DOMAIN wLumps
    /\ (ldResult # <<>> /\ ldResult[1] = "texture" /\ ldResult[2] \notin DOMAIN wTextures) =>
            ldResult[4] = "err"
    /\ (ldResult # <<>> /\ ldResult[1] = "flat" /\ ldResult[2] \notin DOMAIN wFlats) =>
            ldResult[4] = "err"

(***************************************************************************)
(* C15: when the magic of the header is not exactly "IWAD", ReadWAD        *)
(* returns (nil, error) and reads neither the directory nor anything       *)
(* behind it.                                                              *)
(***************************************************************************)
C15_BadMagicRejected ==
    hdrMagic # IwadMagic =>
        /\ wadPc \in {"header", "magic", "returned"}
        /\ wadPc = "returned" => wadRet = <<"nil", "err">>
        /\ wadPc # "returned" => wadRet = <<>>
        /\ IsPrefix(wadTrace, <<"header", "magic">>)
        /\ rdOutcome = "idle" /\ rdI = 0 /\ rdLumps = <<>> /\ rdLumpInfos = <<>>
        /\ wPlaypal = <<>> /\ wPnames = <<>> /\ wPatches = <<>>
        /\ wTextures = <<>> /\ wFlats = <<>>

C15_Witness ==
    /\ hdrMagic = PwadMagic
    /\ wadTrace = <<"header", "magic">>
    /\ wadRet = <<"nil", "err">>

(***************************************************************************)
(* C16: ReadWAD starts its stages in the order header, magic, directory,   *)
(* palette, patch names, patches, textures, flats; it returns either       *)
(* (nil, error) or (WAD, nil), the WAD only after all eight stages have    *)
(* run; what a stage that was not started would have set is unset; and     *)
(* after the return or a panic nothing of the WAD changes any more.        *)
(***************************************************************************)
\*  The state half of C16.
StagesInOrder ==
    /\ IsPrefix(wadTrace, StageOrder)
    /\ wadRet \in {<<>>, <<"nil", "err">>, <<"wad", "nil">>}
    /\ wadRet # <<>> <=> wadPc = "returned"
    /\ wadRet = <<"wad", "nil">> => wadTrace = StageOrder /\ rdOutcome = "ok"
    /\ "directory" \notin Elements(wadTrace) => rdOutcome = "idle"
    /\ "playpal" \notin Elements(wadTrace) => wPlaypal = <<>>
    /\ "pnames" \notin Elements(wadTrace) => wPnames = <<>>
    /\ "patches" \notin Elements(wadTrace) => plPatches = <<>> /\ wPatches = <<>>
    /\ "textures" \notin Elements(wadTrace) => wTextures = <<>>
    /\ "flats" \notin Elements(wadTrace) => wFlats = <<>>
    /\ wadRet = <<"nil", "err">> =>
            /\ wadTrace[Len(wadTrace)] = "playpal" => wPlaypal = <<>>
            /\ wadTrace[Len(wadTrace)] = "pnames" => wPnames = <<>>
            /\ wadTrace[Len(wadTrace)] = "patches" => wPatches = <<>>
            /\ wadTrace[Len(wadTrace)] = "textures" => wTextures = <<>>
            /\ wadTrace[Len(wadTrace)] = "flats" => wFlats = <<>>

wadState == <<wadPc, wadTrace, wadRet, wadFields, plI, plPatches, dirVars>>

NothingAfterTheEnd == wadPc \in {"returned", "panic"} => wadState' = wadState

C16_StagesFailFast == []StagesInOrder /\ [][NothingAfterTheEnd]_vars

C16_Witness ==
    /\ wadRet = <<"nil", "err">>
    /\ wadTrace = SubSeq(StageOrder, 1, 5)
    /\ wPlaypal # <<>>
    /\ wPnames = <<>>

(***************************************************************************)
(* C18: a patch whose header declares a width or a height above 4096 is    *)
(* not in the patch cache, every other name of the patch-name table is,    *)
(* with the size its header declares, and readPatchLumps returns an error  *)
(* only for a lump it cannot read.                                         *)
(***************************************************************************)
\* The directory entry the name of a patch leads to.
PatchEntry(pname) == wLumpInfos[mapLookup(wLumps, TruncAtNul(pname), 0)]

PatchHeader(pname) == ContentAt(PatchEntry(pname).Filepos).pic

TooLarge(header) == ~(header.Width <= 4096 /\ header.Height <= 4096)

Unreadable(pname) ==
    PatchEntry(pname).Filepos < 0 \/ PatchEntry(pname).Filepos >= fileEnd

C18_OversizedPatchSkipped ==
    /\ "textures" \in Elements(wadTrace) =>
          /\ DOMAIN wPatches =
                {TruncAtNul(wPnames[k]) : k \in {j \in DOMAIN wPnames : ~TooLarge(PatchHeader(wPnames[j]))}}
          /\ \A k \in DOMAIN wPnames :
                ~TooLarge(PatchHeader(wPnames[k])) =>
                    /\ wPatches[TruncAtNul(wPnames[k])].Width = PatchHeader(wPnames[k]).Width
                    /\ wPatches[TruncAtNul(wPnames[k])].Height = PatchHeader(wPnames[k]).Height
    /\ (wadRet = <<"nil", "err">> /\ wadTrace[Len(wadTrace)] = "patches") =>
          \E k \in DOMAIN wPnames : Unreadable(wPnames[k])

C18_Witness ==
    /\ wadRet = <<"wad", "nil">>
    /\ Elements(wPnames) = {Pad8(Wall1Name), Pad8(Big1Name), Pad8(Wall2Name), Pad8(Tall1Name)}
    /\ {Big1Name, Tall1Name} \subseteq DOMAIN wLumps
    /\ DOMAIN wPatches = {Wall1Name, Wall2Name}

(***************************************************************************)
(* readPatchLumps (wad.go), lines 329-366: the decoding of the lump of     *)
(* one patch, byte by byte.  Go indexes lump from 0, the sequence lump     *)
(* here is indexed from 1.                                                 *)
(***************************************************************************)
\* The largest picture and the most runs in a column that are encoded.
MaxPicWidth == 2

MaxPicHeight == 2

MaxRuns == 2

\* wad.TransparentPaletteIndex (line 223).
TransparentPaletteIndex == 255

\* The rowStart that ends a column (line 351).
ColumnEnd == 255

\* The size of a PictureHeader in the lump.
PictureHeaderSize == 8

\* binary.Read of an int16 and of an int32, little endian.
Int16LE(b0, b1) == Int16(b0 + 256 * b1)

Int32LE(b0, b1, b2, b3) ==
    b0 + 256 * b1 + 65536 * b2 + 16777216 * (IF b3 > 127 THEN b3 - 256 ELSE b3)

byteAt(off) == lump[off + 1]

inLump(off) == 0 <= off /\ off < Len(lump)

\* A pixel offset that takes the columns one after the other.
pixelOffsetByColumn(rowStart, i, width, columnIndex) == columnIndex * width + rowStart + i

\* Line 359.
pixelOffset(rowStart, i, width, columnIndex) == (rowStart + i) * width + columnIndex

pdLocals == <<pdHeader, pdOffsets, pdPixels, pdColumn, pdOffset>>

patchOthers == <<bspVars, levelVars, findVars, dirVars, wadVars, texVars, cacheVars, genVars>>

\* Lines 329-347: the header, the sanity bound, the offsets, the fill.
DecodeHeader ==
    /\ pdOutcome = "start"
    /\ IF Len(lump) < PictureHeaderSize
       THEN pdOutcome' = "err" /\ UNCHANGED pdLocals
       ELSE LET header == [Width |-> Int16LE(lump[1], lump[2]),
                           Height |-> Int16LE(lump[3], lump[4])]
                size == header.Width * header.Height
            IN  /\ pdHeader' = header
                /\ IF oversized(header)
                   THEN pdOutcome' = "skipped" /\ UNCHANGED <<pdOffsets, pdPixels, pdColumn, pdOffset>>
                   ELSE IF header.Width < 0
                   THEN pdOutcome' = "panic" /\ UNCHANGED <<pdOffsets, pdPixels, pdColumn, pdOffset>>
                   ELSE IF Len(lump) < PictureHeaderSize + 4 * header.Width
                   THEN pdOutcome' = "err" /\ UNCHANGED <<pdOffsets, pdPixels, pdColumn, pdOffset>>
                   ELSE IF size < 0
                   THEN pdOutcome' = "panic" /\ UNCHANGED <<pdOffsets, pdPixels, pdColumn, pdOffset>>
                   ELSE /\ pdOffsets' =
                             [c \in 0..(header.Width - 1) |->
                                 Int32LE(lump[PictureHeaderSize + 4 * c + 1],
                                         lump[PictureHeaderSize + 4 * c + 2],
                                         lump[PictureHeaderSize + 4 * c + 3],
                                         lump[PictureHeaderSize + 4 * c + 4])]
                        /\ pdPixels' = [p \in 0..(size - 1) |-> TransparentPaletteIndex]
                        /\ pdColumn' = 0
                        /\ pdOffset' = IF header.Width > 0 THEN pdOffsets'[0] ELSE 0
                        /\ pdOutcome' = "columns"
    /\ UNCHANGED <<lump, picture, pdImage>>
    /\ UNCHANGED patchOthers

\* Lines 348-364: one turn of the inner loop: the end of the column, or a run.
DecodeRun ==
    /\ pdOutcome = "columns"
    /\ pdColumn < pdHeader.Width
    /\ IF ~inLump(pdOffset)
       THEN pdOutcome' = "panic" /\ UNCHANGED <<pdPixels, pdColumn, pdOffset>>
       ELSE IF byteAt(pdOffset) = ColumnEnd
       THEN /\ pdColumn' = pdColumn + 1
            /\ pdOffset' = IF pdColumn + 1 < pdHeader.Width THEN pdOffsets[pdColumn + 1] ELSE pdOffset
            /\ UNCHANGED <<pdPixels, pdOutcome>>
       ELSE IF ~inLump(pdOffset + 1)
       THEN pdOutcome' = "panic" /\ UNCHANGED <<pdPixels, pdColumn, pdOffset>>
       ELSE LET rowStart == byteAt(pdOffset)
                numPixels == byteAt(pdOffset + 1)
                data == pdOffset + 3
                target(i) == pixelOffset(rowStart, i, pdHeader.Width, pdColumn)
            IN  IF \E i \in 0..(numPixels - 1) :
                      ~inLump(data + i) \/ target(i) \notin DOMAIN pdPixels
                THEN pdOutcome' = "panic" /\ UNCHANGED <<pdPixels, pdColumn, pdOffset>>
                ELSE /\ pdPixels' =
                          [p \in DOMAIN pdPixels |->
                              IF \E i \in 0..(numPixels - 1) : target(i) = p
                              THEN byteAt(data + (CHOOSE i \in 0..(numPixels - 1) : target(i) = p))
                              ELSE pdPixels[p]]
                     /\ pdOffset' = data + numPixels + 1
                     /\ UNCHANGED <<pdColumn, pdOutcome>>
    /\ UNCHANGED <<lump, picture, pdHeader, pdOffsets, pdImage>>
    /\ UNCHANGED patchOthers

\* Line 366: the Image goes into the map.
StorePatch ==
    /\ pdOutcome = "columns"
    /\ ~(pdColumn < pdHeader.Width)
    /\ pdImage' = <<[Width |-> pdHeader.Width, Height |-> pdHeader.Height, Pixels |-> pdPixels]>>
    /\ pdOutcome' = "done"
    /\ UNCHANGED <<lump, picture, pdLocals>>
    /\ UNCHANGED patchOthers

(***************************************************************************)
(* The lumps that are decoded: pictures written by an encoder of the       *)
(* picture format.  Every column of a picture has the same runs; the byte  *)
(* of a pixel tells its run, its column and its place in the run.          *)
(***************************************************************************)
LE16(v) == <<v % 256, (v \div 256) % 256>>

LE32(v) == <<v % 256, (v \div 256) % 256, (v \div 65536) % 256, (v \div 16777216) % 256>>

PixelByte(k, c, i) == 16 * k + 4 * c + i

RECURSIVE encodeRuns(_, _, _)
encodeRuns(runs, k, c) ==
    IF k > Len(runs) THEN <<>>
    ELSE <<runs[k].rowStart, runs[k].count, 0>>
             \o [i \in 1..runs[k].count |-> PixelByte(k, c, i - 1)]
             \o <<0>>
             \o encodeRuns(runs, k + 1, c)

encodeColumn(runs, c) == encodeRuns(runs, 1, c) \o <<ColumnEnd>>

RECURSIVE encodeColumns(_, _)
encodeColumns(pic, c) ==
    IF c >= pic.Width THEN <<>>
    ELSE encodeColumn(pic.runs, c) \o encodeColumns(pic, c + 1)

RECURSIVE encodeOffsets(_, _)
encodeOffsets(pic, c) ==
    IF c >= pic.Width THEN <<>>
    ELSE LE32(PictureHeaderSize + 4 * pic.Width + c * Len(encodeColumn(pic.runs, 0)))
             \o encodeOffsets(pic, c + 1)

encodeHeader(pic) == LE16(pic.Width) \o LE16(pic.Height) \o <<0, 0, 0, 0>>

encodePicture(pic) == encodeHeader(pic) \o encodeOffsets(pic, 0) \o encodeColumns(pic, 0)

\* The runs of a column of height h, those that end one row below the picture included.
Runs(h) ==
    {run \in [rowStart : 0..(h - 1), count : 0..(h + 1)] : run.rowStart + run.count <= h + 1}

RunLists(h) == UNION {[1..m -> Runs(h)] : m \in 0..MaxRuns}

\* The sizes above the sanity bound that are tried.
OversizedSides == {<<4097, 1>>, <<1, 4097>>, <<4097, 4097>>, <<32767, 1>>}

StartPatch ==
    /\ pdHeader = [Width |-> 0, Height |-> 0] /\ pdOffsets = <<>> /\ pdPixels = <<>>
    /\ pdColumn = 0 /\ pdOffset = 0 /\ pdOutcome = "start" /\ pdImage = <<>>
    /\ side = <<>> /\ Nodes = <<>> /\ point = [X |-> 0, Y |-> 0]
    /\ IdleBsp /\ IdleLevel /\ IdleFind /\ IdleDir /\ IdleWad /\ IdleTex /\ IdleCache
    /\ IdleGen

\* A picture of any size and any runs.
InitPatchEncoded ==
    \E w \in 0..MaxPicWidth, h \in 0..MaxPicHeight :
        \E runs \in RunLists(h) :
            /\ picture = [Width |-> w, Height |-> h, runs |-> runs]
            /\ lump = encodePicture(picture)

\* The header of a picture above the sanity bound.
InitPatchOversized ==
    \E sides \in OversizedSides :
        /\ picture = [Width |-> sides[1], Height |-> sides[2], runs |-> <<>>]
        /\ lump = encodeHeader(picture)

\* The lump of a picture of one pixel, cut short.
OnePixel == [Width |-> 1, Height |-> 1, runs |-> <<[rowStart |-> 0, count |-> 1]>>]

InitPatchCut ==
    \E cut \in 0..(Len(encodePicture(OnePixel)) - 1) :
        /\ picture = OnePixel
        /\ lump = SubSeq(encodePicture(OnePixel), 1, cut)

InitPatch == StartPatch /\ (InitPatchEncoded \/ InitPatchOversized \/ InitPatchCut)

NextPatch == DecodeHeader \/ DecodeRun \/ StorePatch

SpecPatch == InitPatch /\ [][NextPatch]_vars

(***************************************************************************)
(* C17: the Image that readPatchLumps stores for a picture of width W and  *)
(* height H has Width W, Height H and W*H pixels; the pixel of row r and   *)
(* column c is the byte that the last run covering row r supplies for      *)
(* column c, and 255 when no run covers row r.                             *)
(***************************************************************************)
Covering(r) ==
    {k \in DOMAIN picture.runs :
        /\ picture.runs[k].rowStart <= r
        /\ r < picture.runs[k].rowStart + picture.runs[k].count}

Expected(r, c) ==
    IF Covering(r) = {} THEN 255
    ELSE PixelByte(LastOf(Covering(r)), c, r - picture.runs[LastOf(Covering(r))].rowStart)

C17_PatchPixels ==
    pdOutcome = "done" =>
        /\ pdImage[1].Width = picture.Width
        /\ pdImage[1].Height = picture.Height
        /\ DOMAIN pdImage[1].Pixels = 0..(picture.Width * picture.Height - 1)
        /\ \A r \in 0..(picture.Height - 1), c \in 0..(picture.Width - 1) :
              pdImage[1].Pixels[r * picture.Width + c] = Expected(r, c)

C17_Witness ==
    /\ pdOutcome = "done"
    /\ picture.Width = 2 /\ picture.Height = 2
    /\ picture.runs = <<[rowStart |-> 0, count |-> 2], [rowStart |-> 0, count |-> 1]>>
    /\ pdImage[1].Pixels = ZeroBased(<<32, 36, 17, 21>>)

(***************************************************************************)
(* loadTexture (godoom.go), lines 666-698: the patches of a texture are    *)
(* drawn on a canvas one after the other.                                  *)
(***************************************************************************)
\* The largest canvas and the most patches of a texture.
MaxCanvasSide == 2

MaxPatches == 2

\* wad.Playpal.Palettes[0].Table
Table(pixel) == [Red |-> pixel, Green |-> (3 * pixel) % 256, Blue |-> 255 - pixel]

\* The color.RGBA of line 695.
colourOf(pixel) ==
    [rgb |-> Table(pixel), Alpha |-> IF pixel = TransparentPaletteIndex THEN 0 ELSE 255]

\* A pixel of image.NewRGBA before anything is drawn.
ZeroRGBA == [rgb |-> [Red |-> 0, Green |-> 0, Blue |-> 0], Alpha |-> 0]

\* image.NewRGBA(image.Rect(0, 0, width, height))
NewRGBA(width, height) == [pt \in (0..(width - 1)) \X (0..(height - 1)) |-> ZeroRGBA]

\* A drawing that leaves the canvas alone where the patch is transparent.
drawPatchSkipTransparent(canvas, patch, image) ==
    [pt \in DOMAIN canvas |->
        LET x == pt[1] - patch.XOffset
            y == pt[2] - patch.YOffset
        IN  IF /\ 0 <= x /\ x < image.Width /\ 0 <= y /\ y < image.Height
               /\ image.Pixels[y * image.Width + x] # TransparentPaletteIndex
            THEN colourOf(image.Pixels[y * image.Width + x])
            ELSE canvas[pt]]

\* Lines 685-697: rgba.Set for every pixel of the image; Set leaves out the
\* points that are not on the canvas.
drawPatch(canvas, patch, image) ==
    [pt \in DOMAIN canvas |->
        LET x == pt[1] - patch.XOffset
            y == pt[2] - patch.YOffset
        IN  IF 0 <= x /\ x < image.Width /\ 0 <= y /\ y < image.Height
            THEN colourOf(image.Pixels[y * image.Width + x])
            ELSE canvas[pt]]

texOthers == <<bspVars, levelVars, findVars, dirVars, wadVars, patchVars, cacheVars, genVars>>

\* Lines 667-679.
StartTexture ==
    /\ ltOutcome = "start"
    /\ IF texture.Header = <<>>
       THEN ltOutcome' = "noheader" /\ UNCHANGED rgba
       ELSE /\ rgba' = NewRGBA(texture.Header[1].Width, texture.Header[1].Height)
            /\ ltOutcome' = "patches"
    /\ UNCHANGED <<texture, images, ltPatch>>
    /\ UNCHANGED texOthers

\* Lines 680-698: one turn of the range loop.
DrawPatch ==
    /\ ltOutcome = "patches"
    /\ ltPatch < Len(texture.Patches)
    /\ LET patch == texture.Patches[ltPatch + 1]
       IN  IF patch.PNameNumber \notin DOMAIN images
           THEN ltOutcome' = "panic" /\ UNCHANGED <<rgba, ltPatch>>
           ELSE /\ rgba' = drawPatch(rgba, patch, images[patch.PNameNumber])
                /\ ltPatch' = ltPatch + 1
                /\ UNCHANGED ltOutcome
    /\ UNCHANGED <<texture, images>>
    /\ UNCHANGED texOthers

\* Lines 700-718: the canvas goes to the GL texture.
UploadTexture ==
    /\ ltOutcome = "patches"
    /\ ~(ltPatch < Len(texture.Patches))
    /\ ltOutcome' = "done"
    /\ UNCHANGED <<texture, images, rgba, ltPatch>>
    /\ UNCHANGED texOthers

\* The pictures of the patches: 7 255 in a row, 255 9 in a column, and the
\* zero Image of a patch that is not in the cache.
PatchImages ==
    ZeroBased(<<[Width |-> 2, Height |-> 1, Pixels |-> ZeroBased(<<7, 255>>)],
                [Width |-> 1, Height |-> 2, Pixels |-> ZeroBased(<<255, 9>>)],
                [Width |-> 0, Height |-> 0, Pixels |-> <<>>]>>)

PatchOffsets == {<<0, 0>>, <<1, 0>>, <<-1, 0>>, <<0, 1>>}

TexPatches ==
    {[XOffset |-> o[1], YOffset |-> o[2], PNameNumber |-> n] :
        o \in PatchOffsets, n \in 0..Cardinality(DOMAIN PatchImages)}

InitTex ==
    /\ images = PatchImages
    /\ \/ texture = [Header |-> <<>>, Patches |-> <<>>]
       \/ \E w \in 1..MaxCanvasSide, h \in 1..MaxCanvasSide, m \in 0..MaxPatches :
             \E patches \in [1..m -> TexPatches] :
                texture = [Header |-> <<[Width |-> w, Height |-> h]>>, Patches |-> patches]
    /\ rgba = <<>> /\ ltPatch = 0 /\ ltOutcome = "start"
    /\ side = <<>> /\ Nodes = <<>> /\ point = [X |-> 0, Y |-> 0]
    /\ IdleBsp /\ IdleLevel /\ IdleFind /\ IdleDir /\ IdleWad /\ IdlePatch /\ IdleCache
    /\ IdleGen

NextTex == StartTexture \/ DrawPatch \/ UploadTexture

SpecTex == InitTex /\ [][NextTex]_vars

(***************************************************************************)
(* C19: when loadTexture has drawn the patches, every point of the canvas  *)
(* has the colour of the last patch in list order whose picture, moved by  *)
(* the patch's offset, covers the point: alpha 0 when that pixel is 255,   *)
(* whatever an earlier patch drew there, alpha 255 otherwise; a point no   *)
(* patch covers is as NewRGBA left it.                                     *)
(***************************************************************************)
PatchCovers(k, pt) ==
    LET patch == texture.Patches[k]
        image == images[patch.PNameNumber]
    IN  /\ patch.XOffset <= pt[1] /\ pt[1] < patch.XOffset + image.Width
        /\ patch.YOffset <= pt[2] /\ pt[2] < patch.YOffset + image.Height

PatchPixel(k, pt) ==
    LET patch == texture.Patches[k]
        image == images[patch.PNameNumber]
    IN  image.Pixels[(pt[2] - patch.YOffset) * image.Width + (pt[1] - patch.XOffset)]

CoveringPatches(pt) == {k \in DOMAIN texture.Patches : PatchCovers(k, pt)}

C19_LastPatchWins ==
    ltOutcome = "done" =>
        /\ DOMAIN rgba =
              (0..(texture.Header[1].Width - 1)) \X (0..(texture.Header[1].Height - 1))
        /\ \A pt \in DOMAIN rgba :
              IF CoveringPatches(pt) = {}
              THEN rgba[pt] = ZeroRGBA
              ELSE LET pixel == PatchPixel(LastOf(CoveringPatches(pt)), pt)
                   IN  /\ rgba[pt].rgb = Table(pixel)
                       /\ rgba[pt].Alpha = IF pixel = 255 THEN 0 ELSE 255

C19_Witness ==
    /\ ltOutcome = "done"
    /\ Len(texture.Patches) = 2
    /\ PatchCovers(1, <<0, 0>>) /\ PatchPixel(1, <<0, 0>>) = 7
    /\ PatchCovers(2, <<0, 0>>) /\ PatchPixel(2, <<0, 0>>) = 255
    /\ rgba[<<0, 0>>].Alpha = 0

(***************************************************************************)
(* Scene.CacheTexture and Scene.CacheFlat (godoom.go), lines 125-149.      *)
(* The loaders are loadTexture and loadFlat: for a texture with a header   *)
(* and for a flat with data they return a fresh GL id, for a texture       *)
(* without a header the id 0; loadFlat of a flat without data panics; and  *)
(* either may return an error.                                             *)
(***************************************************************************)
\* The number of calls in one run.
MaxCacheCalls == 4

CacheNames == {Tex1Name, Flat1Name, NoSuchName}

\* What loadTexture(wad, name) and loadFlat(wad, name) may do.
loadTextureResults(name) == IF name = Tex1Name THEN {"id", "err"} ELSE {"zero", "err"}

loadFlatResults(name) == IF name = Flat1Name THEN {"id", "err"} ELSE {"panic"}

Count(f, key) == IF key \in DOMAIN f THEN f[key] ELSE 0

cacheOthers ==
    <<bspVars, levelVars, findVars, dirVars, wadVars, patchVars, texVars, genVars>>

\* What a call does once the loader has been run with the given result.
Loaded(kind, name, result, cache) ==
    /\ loaderRuns' = mapStore(loaderRuns, <<kind, name>>, Count(loaderRuns, <<kind, name>>) + 1)
    /\ loaderOk' =
          IF result \in {"id", "zero"}
          THEN mapStore(loaderOk, <<kind, name>>, Count(loaderOk, <<kind, name>>) + 1)
          ELSE loaderOk
    /\ cache' =
          CASE result = "id" -> mapStore(cache, name, nextTexId)
            [] result = "zero" -> mapStore(cache, name, 0)
            [] OTHER -> cache
    /\ nextTexId' = IF result = "id" THEN nextTexId + 1 ELSE nextTexId
    /\ cacheOutcome' = IF result = "panic" THEN "panic" ELSE cacheOutcome
    /\ cacheCalls' = Append(cacheCalls, [kind |-> kind, name |-> name, result |-> result])

\* The call finds the name in the cache and returns.
AlreadyLoaded(kind, name) ==
    /\ cacheCalls' = Append(cacheCalls, [kind |-> kind, name |-> name, result |-> "loaded"])
    /\ UNCHANGED <<sceneTextures, sceneFlats, nextTexId, loaderRuns, loaderOk, cacheOutcome>>

\* CacheTexture without lines 126-129.
CacheTextureAlwaysLoad(name) ==
    /\ cacheOutcome = "running"
    /\ Len(cacheCalls) < MaxCacheCalls
    /\ \E result \in loadTextureResults(name) :
          Loaded("texture", name, result, sceneTextures)
    /\ UNCHANGED sceneFlats
    /\ UNCHANGED cacheOthers

\* Lines 125-136.
CacheTexture(name) ==
    /\ cacheOutcome = "running"
    /\ Len(cacheCalls) < MaxCacheCalls
    /\ IF name \in DOMAIN sceneTextures
       THEN AlreadyLoaded("texture", name)
       ELSE /\ \E result \in loadTextureResults(name) :
                  Loaded("texture", name, result, sceneTextures)
            /\ UNCHANGED sceneFlats
    /\ UNCHANGED cacheOthers

\* Lines 138-149.
CacheFlat(name) ==
    /\ cacheOutcome = "running"
    /\ Len(cacheCalls) < MaxCacheCalls
    /\ IF name \in DOMAIN sceneFlats
       THEN AlreadyLoaded("flat", name)
       ELSE /\ \E result \in loadFlatResults(name) :
                  Loaded("flat", name, result, sceneFlats)
            /\ UNCHANGED sceneTextures
    /\ UNCHANGED cacheOthers

\* NewScene: both caches are empty.
InitCache ==
    /\ sceneTextures = <<>> /\ sceneFlats = <<>> /\ nextTexId = 1
    /\ loaderRuns = <<>> /\ loaderOk = <<>> /\ cacheCalls = <<>> /\ cacheOutcome = "running"
    /\ side = <<>> /\ Nodes = <<>> /\ point = [X |-> 0, Y |-> 0]
    /\ IdleBsp /\ IdleLevel /\ IdleFind /\ IdleDir /\ IdleWad /\ IdlePatch /\ IdleTex
    /\ IdleGen

NextCache ==
    \/ \E name \in CacheNames : CacheTexture(name)
    \/ \E name \in CacheNames : CacheFlat(name)

SpecCache == InitCache /\ [][NextCache]_vars

(***************************************************************************)
(* C20: a call of CacheTexture or CacheFlat for a name that is in the      *)
(* cache changes neither cache and runs no loader; hence a name is in a    *)
(* cache exactly when its loader has returned without an error, which it   *)
(* does at most once, and an id in a cache is never replaced.              *)
(***************************************************************************)
CacheOf(kind) == IF kind = "texture" THEN sceneTextures ELSE sceneFlats

CacheKeys == {"texture", "flat"} \X CacheNames

\* The state half of C20.
LoadedOncePerName ==
    \A key \in CacheKeys :
        /\ Count(loaderOk, key) <= 1
        /\ key[2] \in DOMAIN CacheOf(key[1]) <=> Count(loaderOk, key) = 1

\* The step half of C20.
CachedNameIsLeftAlone ==
    /\ \A key \in CacheKeys :
          key[2] \in DOMAIN CacheOf(key[1]) =>
              /\ Count(loaderRuns', key) = Count(loaderRuns, key)
              /\ key[2] \in DOMAIN CacheOf(key[1])'
              /\ CacheOf(key[1])'[key[2]] = CacheOf(key[1])[key[2]]
    /\ (/\ Len(cacheCalls') = Len(cacheCalls) + 1
        /\ cacheCalls'[Len(cacheCalls')].name
              \in DOMAIN CacheOf(cacheCalls'[Len(cacheCalls')].kind))
          => UNCHANGED <<sceneTextures, sceneFlats, nextTexId, loaderRuns, loaderOk>>

C20_CacheIsIdempotent == []LoadedOncePerName /\ [][CachedNameIsLeftAlone]_vars

C20_Witness ==
    /\ Len(cacheCalls) = 4
    /\ cacheCalls[1] = [kind |-> "texture", name |-> Tex1Name, result |-> "err"]
    /\ cacheCalls[2] = [kind |-> "texture", name |-> Tex1Name, result |-> "id"]
    /\ cacheCalls[3] = [kind |-> "flat", name |-> Flat1Name, result |-> "id"]
    /\ cacheCalls[4] = [kind |-> "texture", name |-> Tex1Name, result |-> "loaded"]
    /\ Count(loaderRuns, <<"texture", Tex1Name>>) = 2
    /\ sceneTextures[Tex1Name] = 1
    /\ sceneFlats[Flat1Name] = 2

(***************************************************************************)
(* C24: traverseBsp ends on every node array, one whose child slots form a *)
(* cycle included: a limit on the depth or on the nodes visited cuts the   *)
(* recursion off, so no node is entered while an invocation on that node   *)
(* is still running and the recursion never exhausts the stack.            *)
(***************************************************************************)
NodeOnStackTwice ==
    \E i, j \in 1..Len(stack) : i < j /\ stack[i].idx = stack[j].idx

C24_RecursionIsCutOff == outcome # "overflow" /\ ~NodeOnStackTwice

(***************************************************************************)
(* C25: the Level that ReadLevel(A) returns is built only from directory   *)
(* entries between A's anchor and the next level's anchor, so that the     *)
(* lumps of another level B have no part in it, also when A has fewer than *)
(* ten lumps and B's anchor lies inside the ten-entry window.  Each array  *)
(* of the Level is the content of the entry it was read from, so the claim *)
(* is that every such entry belongs to A.                                  *)
(***************************************************************************)
AnchorIndices == {wLevels[s] : s \in DOMAIN wLevels}

\* The entries behind the anchor of level `name`, up to the next anchor.
OwnEntries(name) ==
    LET anchor == wLevels[name]
        later == {k \in AnchorIndices : k > anchor}
        next == IF later = {} THEN NumLumps ELSE FirstOf(later)
    IN  (anchor + 1)..(next - 1)

C25_LevelFromOwnLumps ==
    (rlOutcome = "ok" /\ rlName \in DOMAIN wLevels) =>
        \A f \in LevelFields : \A i \in Elements(rlLevel[f]) : i \in OwnEntries(rlName)

(***************************************************************************)
(* C30: while readPatchLumps decodes a lump, every index it uses on pixels *)
(* is in [0, W*H) and every index it uses on lump is in [0, len(lump)),    *)
(* whatever column offsets and run headers the lump holds, and the loop    *)
(* over the runs of a column ends: no index expression of the decoder is   *)
(* out of range, and the decoding ends with the picture stored, skipped or *)
(* refused with an error.                                                  *)
(***************************************************************************)
C30_DecodeStaysInBounds ==
    /\ pdOutcome # "panic"
    /\ pdOutcome = "columns" /\ pdColumn < pdHeader.Width =>
          /\ inLump(pdOffset)
          /\ byteAt(pdOffset) # ColumnEnd => inLump(pdOffset + 1)
          /\ (byteAt(pdOffset) # ColumnEnd /\ inLump(pdOffset + 1)) =>
                \A i \in 0..(byteAt(pdOffset + 1) - 1) :
                    /\ inLump(pdOffset + 3 + i)
                    /\ pixelOffset(byteAt(pdOffset), i, pdHeader.Width, pdColumn)
                          \in 0..(pdHeader.Width * pdHeader.Height - 1)

(***************************************************************************)
(* C29: readInfoTables indexes lumpInfos only within [0, NumLumps): for a  *)
(* directory whose entry 0 is named THINGS it records no level and makes   *)
(* no access at index -1, and the entry in front of a THINGS entry has     *)
(* been stored by the time it is read.                                     *)
(***************************************************************************)
\* The turn of the loop that is about to run meets a THINGS entry.
AtThingsEntry ==
    /\ rdOutcome = "running"
    /\ rdI < NumLumps
    /\ rdI \in DOMAIN dir
    /\ ToString(dir[rdI].Name) = ThingsName

C29_ReadsWithinLumpInfos ==
    /\ rdOutcome # "panic"
    /\ AtThingsEntry =>
          /\ rdI - 1 \in 0..(NumLumps - 1)
          /\ rdLumpInfos[rdI - 1] = dir[rdI - 1]

(***************************************************************************)
(* C28: findSector never uses a decoded subsector index as an index into   *)
(* level.Nodes: an invocation that has examined a subsector whose seg      *)
(* range is empty, or whose segs have no sidedef, returns none and does    *)
(* not go on to the bounding boxes of Nodes[subsector index].              *)
(***************************************************************************)
C28_LeafNeverIndexesNodes ==
    \A i \in 1..Len(fsTrail) :
        fsTrail[i].did.examined # <<>> =>
            /\ fsTrail[i].did.node = <<>>
            /\ fsTrail[i].did.kind # "call"

(***************************************************************************)
(* The traversal of one node of any position and direction, with two       *)
(* subsectors as its children (subsector 1 in slot 0, subsector 2 in       *)
(* slot 1), for a point anywhere.                                          *)
(***************************************************************************)
NearNodes ==
    [X : {Int16Min, 0, Int16Max}, Y : {Int16Min, 0, Int16Max},
     DX : SideDirs, DY : SideDirs,
     BBox : {[s \in 0..1 |-> NoBox]},
     Child : {Array2(Int16Min + 1, Int16Min + 2)}]

InitNear ==
    /\ Nodes \in [0..0 -> NearNodes]
    /\ point \in [X : SideCoords, Y : SideCoords]
    /\ filter = "all"
    /\ stack = <<[idx |-> NumNodes - 1, pc |-> "enter", side |-> 0]>>
    /\ visits = <<>>
    /\ filterCalls = <<>>
    /\ outcome = "running"
    /\ side = <<>>
    /\ IdleLevel /\ IdleFind /\ IdleDir /\ IdleLater

NextNear == Enter \/ AfterNear \/ AfterFar

SpecNear == InitNear /\ [][NextNear]_vars

(***************************************************************************)
(* C27: DX and DY are 16-bit, so DX>>16 and DY>>16 are 0 or -1 and the     *)
(* side pointOnSide returns depends on DX and DY through their signs only. *)
(* At a node with DX >= 0 and DY >= 0 it is 1 (back) for every point, and  *)
(* traverseBsp enters Child[1] before Child[0] there wherever the point    *)
(* is.                                                                     *)
(***************************************************************************)
\* -1 for a negative direction field, 0 for any other.
SignOf(v) == IF v < 0 THEN -1 ELSE 0

\* The nodes that have been classified: those of the frames past "enter".
Classified == {i \in 1..Len(stack) : stack[i].pc \in {"near", "far"}}

NonNegative(n) == Nodes[n].DX >= 0 /\ Nodes[n].DY >= 0

C27_SignsDecideTheSide ==
    /\ \A i \in Classified :
          LET n == stack[i].idx
              dx == point.X - Nodes[n].X
              dy == point.Y - Nodes[n].Y
          IN  /\ stack[i].side = 0 <=> dy * SignOf(Nodes[n].DX) < SignOf(Nodes[n].DY) * dx
              /\ NonNegative(n) => stack[i].side = 1
    /\ \A j \in 1..Len(visits) :
          LET slot == visits[j].path[1] IN
          NonNegative(slot[1]) =>
              /\ slot[2] = (IF j = 1 THEN 1 ELSE 0)
              /\ visits[j].arg = (IF j = 1 THEN 2 ELSE 1)

C27_Witness ==
    /\ outcome = "done"
    /\ Nodes[0].DX = 256 /\ Nodes[0].DY = Int16Max
    /\ Nodes[0].X = 0 /\ Nodes[0].Y = 0
    /\ point = [X |-> 1, Y |-> -1]
    /\ Len(visits) = 2
    /\ visits[1].arg = 2 /\ visits[2].arg = 1

(***************************************************************************)
(* genSubsector, genSeg, genLinedef, NewMesh and the SceneBuilder          *)
(* (godoom.go).  genLinedef runs in four steps: the references and the     *)
(* floor, then the upper, the middle and the lower quad; the last step     *)
(* stores the meshes and ends the turn of genSubsector's loop.  A Mesh is  *)
(* the texture name, the light level of the sector (the numerator of       *)
(* lightLevel), count and the vertices handed to gl.BufferData; the names  *)
(* of the GL objects are left out.                                         *)
(***************************************************************************)
\* "-"
DashName == <<45>>

\* -x for an int16 x, as an int16.
negate(x) == Int16(0 - x)

Point3(x, y, z, u, v) == [X |-> x, Y |-> y, Z |-> z, U |-> u, V |-> v]

\* The six vertices of a quad from height near to height far.
wallQuad(start, end, near, far) ==
    <<Point3(negate(start.XCoord), near, start.YCoord, 0, 1),
      Point3(negate(start.XCoord), far, start.YCoord, 0, 0),
      Point3(negate(end.XCoord), far, end.YCoord, 1, 0),
      Point3(negate(end.XCoord), far, end.YCoord, 1, 0),
      Point3(negate(end.XCoord), near, end.YCoord, 1, 1),
      Point3(negate(start.XCoord), near, start.YCoord, 0, 1)>>

\* Lines 151-175: five floats per vertex go to the buffer.
NewMesh(name, lightLevel, vertices) ==
    [texture |-> name, count |-> 5 * Len(vertices), lightLevel |-> lightLevel,
     vertices |-> vertices]

\* Lines 103-110.
AddFloorVertex(fv, sectorId, ssectorId, vertex) ==
    LET inner == mapLookup(fv, sectorId, <<>>)
    IN  mapStore(fv, sectorId,
                 mapStore(inner, ssectorId, Append(mapLookup(inner, ssectorId, <<>>), vertex)))

\* scene.CacheTexture(wad, name), scene.CacheFlat(wad, name) as genLinedef
\* calls them: the error they return is dropped.
cacheCall(kind, name) ==
    IF name \in DOMAIN CacheOf(kind)
    THEN AlreadyLoaded(kind, name)
    ELSE IF kind = "texture"
    THEN /\ \E result \in loadTextureResults(name) :
               Loaded("texture", name, result, sceneTextures)
         /\ UNCHANGED sceneFlats
    ELSE /\ \E result \in loadFlatResults(name) :
               Loaded("flat", name, result, sceneFlats)
         /\ UNCHANGED sceneTextures

\* The locals of the running genLinedef.
curSeg == Segs[gsSeg]

curLinedef == Linedefs[curSeg.LineNum]

curSidedef == Sidedefs[segSidedef(curSeg, curLinedef).ref]

curOpposite == segOppositeSidedef(curSeg, curLinedef)

curSector == Sectors[curSidedef.SectorRef]

curStart == Vertexes[curLinedef.VertexStart]

curEnd == Vertexes[curLinedef.VertexEnd]

genOthers == <<bspVars, levelVars, findVars, dirVars, wadVars, patchVars, texVars>>

sbVars == <<sbFloorTextures, sbFloorVertices>>

GenPanic ==
    /\ gsPc' = "panic"
    /\ UNCHANGED <<gsSeg, gsMeshes, sceneMeshes, sbVars, cacheVars>>

\* Lines 178-179: the subsector and the start of the loop.
GenSubsector ==
    /\ gsPc = "start"
    /\ IF gsSsectorId \notin DOMAIN SSectors
       THEN gsPc' = "panic" /\ UNCHANGED gsSeg
       ELSE gsPc' = "loop" /\ gsSeg' = SSectors[gsSsectorId].StartSeg
    /\ UNCHANGED <<Vertexes, gsSsectorId, gsCalls, gsMeshes, sceneMeshes, sbVars, cacheVars>>
    /\ UNCHANGED genOthers

\* Lines 179-186 and 212-236: the loop test, the call of genSeg, and genLinedef up
\* to the floor.
GenSeg ==
    /\ gsPc = "loop"
    /\ LET ssector == SSectors[gsSsectorId] IN
       IF ~(gsSeg < Int16(ssector.StartSeg + ssector.Numsegs))
       THEN /\ gsPc' = "done"
            /\ UNCHANGED <<gsSeg, gsCalls, gsMeshes, sceneMeshes, sbVars, cacheVars>>
       ELSE /\ gsCalls' = Append(gsCalls, gsSeg)
            /\ IF gsSeg \notin DOMAIN Segs
               THEN GenPanic
               ELSE IF curSeg.LineNum \notin DOMAIN Linedefs
               THEN GenPanic
               ELSE IF segSidedef(curSeg, curLinedef).kind = "panic"
               THEN GenPanic
               ELSE IF segSidedef(curSeg, curLinedef).kind = "nil"
               THEN /\ gsSeg' = Int16(gsSeg + 1)
                    /\ UNCHANGED <<gsPc, gsMeshes, sceneMeshes, sbVars, cacheVars>>
               ELSE IF curSidedef.SectorRef \notin DOMAIN Sectors
               THEN GenPanic
               ELSE IF curOpposite.kind = "panic"
               THEN GenPanic
               ELSE IF curLinedef.VertexStart \notin DOMAIN Vertexes
               THEN GenPanic
               ELSE IF curLinedef.VertexEnd \notin DOMAIN Vertexes
               THEN GenPanic
               ELSE LET floorTexture == ToString(curSector.Floorpic)
                        sectorId == curSidedef.SectorRef
                    IN  /\ gsMeshes' = mapLookup(sceneMeshes, gsSsectorId, <<>>)
                        /\ IF floorTexture # DashName
                           THEN /\ sbFloorTextures' =
                                     mapStore(sbFloorTextures, sectorId, floorTexture)
                                /\ sbFloorVertices' =
                                     AddFloorVertex(
                                         AddFloorVertex(sbFloorVertices, sectorId,
                                                        gsSsectorId, curStart),
                                         sectorId, gsSsectorId, curEnd)
                                /\ cacheCall("flat", floorTexture)
                                /\ gsPc' = IF cacheOutcome' = "panic" THEN "panic" ELSE "upper"
                           ELSE /\ gsPc' = "upper"
                                /\ UNCHANGED <<sbVars, cacheVars>>
                        /\ UNCHANGED <<gsSeg, sceneMeshes>>
    /\ UNCHANGED <<Vertexes, gsSsectorId>>
    /\ UNCHANGED genOthers

\* Whether a quad is made for a texture name that needs the opposite sidedef.
twoSidedQuadAlways(name, opposite) == name # DashName

twoSidedQuad(name, opposite) == name # DashName /\ opposite.kind = "ptr"

\* sector.CeilingHeight or sector.FloorHeight.
heightOf(which, sector) ==
    IF which = "ceiling" THEN sector.CeilingHeight ELSE sector.FloorHeight

\* Lines 238-254 and 272-288: a quad between the near and the opposite sector.
twoSidedStep(name, which, next) ==
    IF twoSidedQuad(name, curOpposite)
    THEN IF Sidedefs[curOpposite.ref].SectorRef \notin DOMAIN Sectors
         THEN /\ gsPc' = "panic"
              /\ UNCHANGED <<gsMeshes, cacheVars>>
         ELSE LET oppositeSector == Sectors[Sidedefs[curOpposite.ref].SectorRef] IN
              /\ gsMeshes' =
                   Append(gsMeshes,
                          NewMesh(name, curSector.Lightlevel,
                                  wallQuad(curStart, curEnd,
                                           heightOf(which, curSector),
                                           heightOf(which, oppositeSector))))
              /\ cacheCall("texture", name)
              /\ gsPc' = next
    ELSE /\ gsPc' = next
         /\ UNCHANGED <<gsMeshes, cacheVars>>

\* Lines 238-254.
GenUpper ==
    /\ gsPc = "upper"
    /\ twoSidedStep(ToString(curSidedef.UpperTexture), "ceiling", "middle")
    /\ UNCHANGED <<Vertexes, gsSsectorId, gsSeg, gsCalls, sceneMeshes, sbVars>>
    /\ UNCHANGED genOthers

\* Lines 256-270.
GenMiddle ==
    /\ gsPc = "middle"
    /\ LET middleTexture == ToString(curSidedef.MiddleTexture) IN
       IF middleTexture # DashName
       THEN /\ gsMeshes' =
                 Append(gsMeshes,
                        NewMesh(middleTexture, curSector.Lightlevel,
                                wallQuad(curStart, curEnd,
                                         curSector.FloorHeight, curSector.CeilingHeight)))
            /\ cacheCall("texture", middleTexture)
       ELSE UNCHANGED <<gsMeshes, cacheVars>>
    /\ gsPc' = "lower"
    /\ UNCHANGED <<Vertexes, gsSsectorId, gsSeg, gsCalls, sceneMeshes, sbVars>>
    /\ UNCHANGED genOthers

\* Lines 272-290 and the seg++ of line 179.
GenLower ==
    /\ gsPc = "lower"
    /\ twoSidedStep(ToString(curSidedef.LowerTexture), "floor", "loop")
    /\ IF gsPc' = "panic"
       THEN UNCHANGED <<gsSeg, sceneMeshes>>
       ELSE /\ sceneMeshes' = mapStore(sceneMeshes, gsSsectorId, gsMeshes')
            /\ gsSeg' = Int16(gsSeg + 1)
    /\ UNCHANGED <<Vertexes, gsSsectorId, gsCalls, sbVars>>
    /\ UNCHANGED genOthers

(***************************************************************************)
(* The levels geometry is generated from: one subsector, two segs, two     *)
(* linedefs, two sidedefs, two sectors (floor 0, ceiling 64 and floor 64,  *)
(* ceiling 128) and two vertexes.  Seg 1 lies on a one-sided line whose    *)
(* sidedef names an upper texture only.                                    *)
(***************************************************************************)
GenTextureNames == {DashName, Tex1Name}

GenSidedefs ==
    [UpperTexture : {Pad8(n) : n \in GenTextureNames},
     LowerTexture : {Pad8(n) : n \in GenTextureNames},
     MiddleTexture : {Pad8(n) : n \in GenTextureNames},
     SectorRef : {0, 2}]

\* One-sided, two-sided, without a right sidedef, without any, with a left
\* sidedef past the array.
GenSidedefRefs == {<<0, -1>>, <<0, 1>>, <<-1, 1>>, <<-1, -1>>, <<0, 2>>}

GenXCoords == {Int16Min, -1, 0, 5, Int16Max}

\* The seg ranges of a sound subsector.
GenRanges == {<<0, 0>>, <<0, 1>>, <<0, 2>>, <<1, 1>>}

\* Seg ranges past the array, empty by a negative count, and at the ends of int16.
GenBadRanges ==
    {<<1, 2>>, <<0, -1>>, <<Int16Max, 1>>, <<Int16Max - 1, 2>>, <<Int16Min, -1>>}

GenLevel(range, segside, lineNum, refs, vertexEnd, sidedef, floorpic, x) ==
    /\ SSectors = [i \in 0..0 |-> [Numsegs |-> range[2], StartSeg |-> range[1]]]
    /\ Segs = Array2([LineNum |-> lineNum, Segside |-> segside],
                     [LineNum |-> 1, Segside |-> 0])
    /\ Linedefs = Array2([VertexStart |-> 0, VertexEnd |-> vertexEnd,
                          SidedefRight |-> refs[1], SidedefLeft |-> refs[2]],
                         [VertexStart |-> 1, VertexEnd |-> 0,
                          SidedefRight |-> 1, SidedefLeft |-> -1])
    /\ Sidedefs = Array2(sidedef,
                         [UpperTexture |-> Pad8(Tex1Name), LowerTexture |-> Pad8(DashName),
                          MiddleTexture |-> Pad8(DashName), SectorRef |-> 1])
    /\ Sectors = Array2([FloorHeight |-> 0, CeilingHeight |-> 64,
                         Floorpic |-> Pad8(floorpic), Lightlevel |-> 255],
                        [FloorHeight |-> 64, CeilingHeight |-> 128,
                         Floorpic |-> Pad8(Flat1Name), Lightlevel |-> 128])
    /\ Vertexes = Array2([XCoord |-> x, YCoord |-> 7], [XCoord |-> 10, YCoord |-> -3])

\* The sidedef of the levels that vary something else.
FullSidedef ==
    [UpperTexture |-> Pad8(Tex1Name), LowerTexture |-> Pad8(Tex1Name),
     MiddleTexture |-> Pad8(Tex1Name), SectorRef |-> 0]

\* Any seg range of a sound subsector over any sidedefs, textures and floor.
InitGenLevels ==
    /\ \E range \in GenRanges, segside \in 0..1, refs \in GenSidedefRefs,
          sidedef \in GenSidedefs, floorpic \in {Flat1Name, DashName, NoSuchName},
          x \in GenXCoords :
          GenLevel(range, segside, 0, refs, 1, sidedef, floorpic, x)
    /\ gsSsectorId = 0

\* One reference that leaves its array: the subsector, the seg range, the
\* linedef of a seg, a vertex of a linedef.
InitGenFaults ==
    \/ /\ GenLevel(<<0, 2>>, 0, 0, <<0, 1>>, 1, FullSidedef, Flat1Name, 5)
       /\ gsSsectorId = 1
    \/ /\ \E range \in GenBadRanges :
             GenLevel(range, 0, 0, <<0, 1>>, 1, FullSidedef, Flat1Name, 5)
       /\ gsSsectorId = 0
    \/ /\ \E lineNum \in {-1, 2}, vertexEnd \in {1, 2} :
             GenLevel(<<0, 2>>, 0, lineNum, <<0, 1>>, vertexEnd, FullSidedef, Flat1Name, 5)
       /\ gsSsectorId = 0
    \/ /\ GenLevel(<<0, 2>>, 0, 0, <<0, 1>>, 2, FullSidedef, Flat1Name, 5)
       /\ gsSsectorId = 0

\* game(): NewSceneBuilder, NewScene, and the first call of the action gen.
InitGen ==
    /\ InitGenLevels \/ InitGenFaults
    /\ gsSeg = 0 /\ gsPc = "start" /\ gsCalls = <<>> /\ gsMeshes = <<>>
    /\ sceneMeshes = <<>> /\ sbFloorTextures = <<>> /\ sbFloorVertices = <<>>
    /\ sceneTextures = <<>> /\ sceneFlats = <<>> /\ nextTexId = 1
    /\ loaderRuns = <<>> /\ loaderOk = <<>> /\ cacheCalls = <<>> /\ cacheOutcome = "running"
    /\ side = <<>> /\ Nodes = <<>> /\ point = [X |-> 0, Y |-> 0]
    /\ IdleBsp /\ IdleFind /\ IdleDir /\ IdleWad /\ IdlePatch /\ IdleTex

NextGen == GenSubsector \/ GenSeg \/ GenUpper \/ GenMiddle \/ GenLower

SpecGen == InitGen /\ [][NextGen]_vars

(***************************************************************************)
(* The geometry of a seg, stated without genLinedef.                       *)
(***************************************************************************)
NearSidedef(s) == Sidedefs[NearRef(s)]

NearSector(s) == Sectors[NearSidedef(s).SectorRef]

OppositeSector(s) == Sectors[Sidedefs[OppositeRef(s)].SectorRef]

\* One quad: its texture and the two heights it spans.
Quad(name, from, to) == [texture |-> name, from |-> from, to |-> to]

UpperQuads(s) ==
    IF TruncAtNul(NearSidedef(s).UpperTexture) # DashName /\ OppositeRef(s) # -1
    THEN <<Quad(TruncAtNul(NearSidedef(s).UpperTexture),
                NearSector(s).CeilingHeight, OppositeSector(s).CeilingHeight)>>
    ELSE <<>>

MiddleQuads(s) ==
    IF TruncAtNul(NearSidedef(s).MiddleTexture) # DashName
    THEN <<Quad(TruncAtNul(NearSidedef(s).MiddleTexture),
                NearSector(s).FloorHeight, NearSector(s).CeilingHeight)>>
    ELSE <<>>

LowerQuads(s) ==
    IF TruncAtNul(NearSidedef(s).LowerTexture) # DashName /\ OppositeRef(s) # -1
    THEN <<Quad(TruncAtNul(NearSidedef(s).LowerTexture),
                NearSector(s).FloorHeight, OppositeSector(s).FloorHeight)>>
    ELSE <<>>

\* The quads of the first n calls of genSeg, in order.
RECURSIVE QuadsOfCalls(_)
QuadsOfCalls(n) ==
    IF n = 0 THEN <<>>
    ELSE QuadsOfCalls(n - 1) \o
         (IF NearRef(gsCalls[n]) = -1 THEN <<>>
          ELSE UpperQuads(gsCalls[n]) \o MiddleQuads(gsCalls[n]) \o LowerQuads(gsCalls[n]))

\* The floor points of the first n calls of genSeg that go to a sector, in order.
RECURSIVE FloorPointsOfCalls(_, _)
FloorPointsOfCalls(n, sectorId) ==
    IF n = 0 THEN <<>>
    ELSE FloorPointsOfCalls(n - 1, sectorId) \o
         (IF /\ NearRef(gsCalls[n]) # -1
             /\ NearSidedef(gsCalls[n]).SectorRef = sectorId
             /\ TruncAtNul(NearSector(gsCalls[n]).Floorpic) # DashName
          THEN <<Vertexes[Linedefs[Segs[gsCalls[n]].LineNum].VertexStart],
                 Vertexes[Linedefs[Segs[gsCalls[n]].LineNum].VertexEnd]>>
          ELSE <<>>)

\* What a mesh shows of its quad.
QuadOfMesh(m) == Quad(m.texture, m.vertices[1].Y, m.vertices[2].Y)

MeshesOf(ssectorId) == mapLookup(sceneMeshes, ssectorId, <<>>)

FloorPointsOf(sectorId, ssectorId) ==
    mapLookup(mapLookup(sbFloorVertices, sectorId, <<>>), ssectorId, <<>>)

\* Between two calls of genSeg, and behind the last.
BetweenSegs == gsPc \in {"loop", "done"}

(***************************************************************************)
(* C21: genLinedef appends nothing and registers no floor point when the   *)
(* near sidedef of the seg is absent; otherwise it appends to the meshes   *)
(* of the subsector, in this order, an upper quad (near ceiling to         *)
(* opposite ceiling) iff the upper texture is not "-" and the opposite     *)
(* sidedef exists, a middle quad (near floor to near ceiling) iff the      *)
(* middle texture is not "-", and a lower quad (near floor to opposite     *)
(* floor) iff the lower texture is not "-" and the opposite sidedef        *)
(* exists, each of six vertices.  Stated of the calls that have returned.  *)
(***************************************************************************)
C21_QuadsOfALinedef ==
    BetweenSegs =>
        LET meshes == MeshesOf(gsSsectorId)
            quads == QuadsOfCalls(Len(gsCalls))
        IN  /\ Len(meshes) = Len(quads)
            /\ \A k \in 1..Len(meshes) :
                  /\ QuadOfMesh(meshes[k]) = quads[k]
                  /\ Len(meshes[k].vertices) = 6
                  /\ meshes[k].count = 30
                  /\ {meshes[k].vertices[v].Y : v \in 1..6} = {quads[k].from, quads[k].to}
            /\ \A sectorId \in DOMAIN Sectors :
                  FloorPointsOf(sectorId, gsSsectorId)
                      = FloorPointsOfCalls(Len(gsCalls), sectorId)
            /\ (\A n \in 1..Len(gsCalls) : NearRef(gsCalls[n]) = -1) =>
                  sceneMeshes = <<>> /\ sbFloorVertices = <<>>

\* A one-sided line with a middle texture only: one quad from 0 to 64; the seg
\* behind it has an upper texture and no opposite sidedef: no quad.
C21_Witness ==
    /\ gsPc = "done"
    /\ gsCalls = <<0, 1>>
    /\ NearRef(0) = 0 /\ OppositeRef(0) = -1
    /\ TruncAtNul(Sidedefs[0].UpperTexture) = DashName
    /\ TruncAtNul(Sidedefs[0].MiddleTexture) = Tex1Name
    /\ TruncAtNul(Sidedefs[0].LowerTexture) = DashName
    /\ Len(MeshesOf(0)) = 1
    /\ {MeshesOf(0)[1].vertices[v].Y : v \in 1..6} = {0, 64}
    /\ Len(FloorPointsOf(0, 0)) = 2
    /\ Len(FloorPointsOf(1, 0)) = 2

(***************************************************************************)
(* C22: every vertex of a wall quad has for X the arithmetic negation of   *)
(* the X coordinate of an endpoint of the linedef and for Z the Y          *)
(* coordinate of that endpoint, for every 16-bit X from -32768 to 32767.   *)
(* Both linedefs of the level run between vertexes 0 and 1.                *)
(***************************************************************************)
FlippedEndpoints ==
    {<<0 - Vertexes[i].XCoord, Vertexes[i].YCoord>> : i \in DOMAIN Vertexes}

C22_XIsNegated ==
    \A ssectorId \in DOMAIN sceneMeshes :
        \A k \in 1..Len(sceneMeshes[ssectorId]) :
            \A v \in 1..Len(sceneMeshes[ssectorId][k].vertices) :
                <<sceneMeshes[ssectorId][k].vertices[v].X,
                  sceneMeshes[ssectorId][k].vertices[v].Z>> \in FlippedEndpoints

(***************************************************************************)
(* C23: when a subsector, seg, linedef, sidedef, sector or vertex          *)
(* reference lies outside its array, genSubsector and genLinedef end in a  *)
(* data-integrity error and index no array outside its bounds.  The run    *)
(* has no outcome but "done" and "panic", and a panic that does not come   *)
(* from the flat loader is an index out of range.                          *)
(***************************************************************************)
IndexOutOfRange == gsPc = "panic" /\ cacheOutcome # "panic"

C23_BadReferenceIsAnError == ~IndexOutOfRange

(***************************************************************************)
(* C26: genSubsector calls genSeg exactly once, in ascending order, for    *)
(* each seg index from StartSeg to StartSeg+Numsegs-1 and for no other,    *)
(* for all 16-bit StartSeg and Numsegs.  A call of genSeg that panics ends *)
(* the loop; up to there the calls are the first ones of that list.        *)
(***************************************************************************)
C26_OneCallPerSeg ==
    (gsPc \notin {"idle", "start"} /\ gsSsectorId \in DOMAIN SSectors) =>
        LET ssector == SSectors[gsSsectorId] IN
        /\ \A k \in 1..Len(gsCalls) :
              /\ gsCalls[k] = ssector.StartSeg + k - 1
              /\ k <= ssector.Numsegs
        /\ gsPc = "done" =>
              Len(gsCalls) = (IF ssector.Numsegs > 0 THEN ssector.Numsegs ELSE 0)

====
